---- MODULE Spec2Model ----
(***************************************************************************)
(* Verification model of the imok remote client: the serial transport and  *)
(* command channel (SerialManager), the URC router and bring-up sequencer  *)
(* (RemoteClientApplication) and the two device profiles                   *)
(* (NordicThingy91XProfile, MurataType1SCProfile).                         *)
(*                                                                         *)
(* Python str values are TLA+ strings; a character is a string of length   *)
(* one.  Wall-clock timeouts are counted in polling intervals ("ticks").   *)
(***************************************************************************)
EXTENDS Integers, Sequences, FiniteSets, TLC

(***************************************************************************)
(* Python string built-ins used by the source.                             *)
(***************************************************************************)
Char(s, i) == SubSeq(s, i, i)

StartsWith(s, p) == Len(s) >= Len(p) /\ SubSeq(s, 1, Len(p)) = p

Contains(s, p) == \E i \in 1..(Len(s) - Len(p) + 1) : SubSeq(s, i, i + Len(p) - 1) = p

\* str.find, 1-based; 0 when p does not occur in s
Find(s, p) ==
    IF Contains(s, p)
    THEN CHOOSE i \in 1..(Len(s) - Len(p) + 1) :
            /\ SubSeq(s, i, i + Len(p) - 1) = p
            /\ \A j \in 1..(i - 1) : SubSeq(s, j, j + Len(p) - 1) # p
    ELSE 0

Whitespace == {" ", "\t", "\r", "\n"}

RECURSIVE LStrip(_)
LStrip(s) == IF Len(s) > 0 /\ Char(s, 1) \in Whitespace THEN LStrip(Tail(s)) ELSE s

RECURSIVE RStrip(_)
RStrip(s) ==
    IF Len(s) > 0 /\ Char(s, Len(s)) \in Whitespace
    THEN RStrip(SubSeq(s, 1, Len(s) - 1))
    ELSE s

Strip(s) == RStrip(LStrip(s))

\* str.split(sep): the sequence of the pieces of s between occurrences of sep
RECURSIVE Split(_, _)
Split(s, sep) ==
    LET i == Find(s, sep)
    IN  IF i = 0
        THEN <<s>>
        ELSE <<SubSeq(s, 1, i - 1)>> \o Split(SubSeq(s, i + Len(sep), Len(s)), sep)

\* sep.join(parts)
RECURSIVE Join(_, _)
Join(sep, parts) ==
    IF Len(parts) = 0 THEN ""
    ELSE IF Len(parts) = 1 THEN parts[1]
    ELSE parts[1] \o sep \o Join(sep, Tail(parts))

LowerLetters == "abcdefghijklmnopqrstuvwxyz"
UpperLetters == "ABCDEFGHIJKLMNOPQRSTUVWXYZ"

UpperChar(ch) ==
    IF Contains(LowerLetters, ch) THEN Char(UpperLetters, Find(LowerLetters, ch)) ELSE ch

RECURSIVE Upper(_)
Upper(s) == IF Len(s) = 0 THEN "" ELSE UpperChar(Char(s, 1)) \o Upper(Tail(s))

LowerChar(ch) ==
    IF Contains(UpperLetters, ch) THEN Char(LowerLetters, Find(UpperLetters, ch)) ELSE ch

RECURSIVE Lower(_)
Lower(s) == IF Len(s) = 0 THEN "" ELSE LowerChar(Char(s, 1)) \o Lower(Tail(s))

Digits == "0123456789"

IsDigits(s) == Len(s) > 0 /\ \A i \in 1..Len(s) : Contains(Digits, Char(s, i))

\* The value of a run of decimal digits
RECURSIVE DigitsValue(_)
DigitsValue(s) ==
    IF Len(s) = 0 THEN 0
    ELSE 10 * DigitsValue(SubSeq(s, 1, Len(s) - 1)) + (Find(Digits, Char(s, Len(s))) - 1)

\* int(s) raises ValueError unless s is an optionally signed run of digits, blanks
\* around it allowed
SignOf(s) == IF Len(s) > 0 /\ Char(s, 1) \in {"-", "+"} THEN Char(s, 1) ELSE ""

IntParses(s) == IsDigits(SubSeq(Strip(s), Len(SignOf(Strip(s))) + 1, Len(Strip(s))))

ToInt(s) ==
    LET t == Strip(s)
        v == DigitsValue(SubSeq(t, Len(SignOf(t)) + 1, Len(t)))
    IN  IF SignOf(t) = "-" THEN 0 - v ELSE v

\* str(n) of a natural number, as an f-string formats it
RECURSIVE ToStr(_)
ToStr(n) ==
    IF n < 10 THEN Char(Digits, n + 1) ELSE ToStr(n \div 10) \o Char(Digits, (n % 10) + 1)

\* The printable ASCII characters in code order: chr(32)..chr(95) and chr(97)..chr(126)
AsciiLow == " !\"#$%&'()*+,-./0123456789:;<=>?@ABCDEFGHIJKLMNOPQRSTUVWXYZ[\\]^_"
AsciiHigh == "abcdefghijklmnopqrstuvwxyz{|}~"

Ord(ch) == IF Contains(AsciiLow, ch) THEN Find(AsciiLow, ch) + 31 ELSE Find(AsciiHigh, ch) + 96

Chr(n) == IF n < 96 THEN Char(AsciiLow, n - 31) ELSE Char(AsciiHigh, n - 96)

HexDigits == "0123456789abcdef"

\* str.encode().hex(): two lower-case hex digits for each byte of an ASCII string
RECURSIVE HexEncode(_)
HexEncode(s) ==
    IF Len(s) = 0 THEN ""
    ELSE Char(HexDigits, (Ord(Char(s, 1)) \div 16) + 1)
            \o Char(HexDigits, (Ord(Char(s, 1)) % 16) + 1)
            \o HexEncode(Tail(s))

HexValue(ch) == Find(HexDigits, LowerChar(ch)) - 1

IsHex(s) == Len(s) > 0 /\ \A i \in 1..Len(s) : HexValue(Char(s, i)) >= 0

\* bytes.fromhex(h).decode('utf-8', errors='replace') for bytes in the printable
\* ASCII range; bytes.fromhex raises ValueError on an odd number of digits
HexDecodes(h) ==
    /\ Len(h) % 2 = 0
    /\ \A i \in 1..Len(h) : HexValue(Char(h, i)) >= 0
    /\ \A i \in 1..(Len(h) \div 2) :
          16 * HexValue(Char(h, 2 * i - 1)) + HexValue(Char(h, 2 * i)) \in (32..126) \ {96}

RECURSIVE HexDecode(_)
HexDecode(h) ==
    IF Len(h) < 2 THEN ""
    ELSE Chr(16 * HexValue(Char(h, 1)) + HexValue(Char(h, 2))) \o HexDecode(SubSeq(h, 3, Len(h)))

(***************************************************************************)
(* Bounds of the model.                                                    *)
(***************************************************************************)
MaxCalls == 2          \* calls made into the bare command channel
MaxLines == 2          \* lines the modem sends unasked
CmdTimeoutTicks == 1   \* send_command timeout, in 0.1 s queue polls
BootTimeoutTicks == 2  \* boot wait timeout, in 0.2 s queue polls
WaitTimeoutTicks == 1  \* registration / GNSS / notification wait timeout, in polls
MaxConnects == 1       \* connections made from the constructed application
MaxFaults == 1         \* commands the modem rejects or leaves without their notification
MaxPayloadLen == 2     \* characters typed into the message input
MaxChunks == 2         \* chunks of one downlink datagram

\* Values fixed by the source
UdpPort == 55555
UdpBufferSize == 1500

\* The threads: the Tk main thread, the receive thread started by handle_urc and
\* the bring-up thread started by the n-th connect.
GuiThread == 1
ReceiveThread == 2
BringupThread(n) == n + 2
BringupThreads == {BringupThread(n) : n \in 1..(MaxConnects + 1)}
\* A receive thread started by handle_urc while the first one is still running
SecondReceiveThread == BringupThread(MaxConnects + 2)
Callers == {GuiThread, ReceiveThread, SecondReceiveThread} \cup BringupThreads
NoThread == 0

\* Python's None
None == "None"

VARIABLES
    \* SerialManager
    serial_is_connected,  \* SerialManager.is_connected
    port_open,            \* SerialManager.serial_port is an open port
    stop_event,           \* SerialManager.stop_event
    reader,               \* SerialManager.receive_thread: the thread running _receive_loop
    buffer,               \* _receive_loop's local `buffer`: the text read but not yet split off
    command_lock,         \* SerialManager.command_lock: its holder, or NoThread
    response_queue,       \* SerialManager.response_queue
    event_queue,          \* SerialManager.event_queue
    port_written,         \* the lines written to the serial port opened last
    pc,                   \* per thread: where it is in send_command / boot wait
    cur_cmd,              \* per thread: send_command's arguments
    responses,            \* per thread: send_command's local list `responses`
    elapsed,              \* per thread: polls since the wait loop started
    result,               \* per thread: the value being returned
    \* the traffic offered to the bare command channel
    calls,                \* calls made so far
    lines_in,             \* lines read from the port so far
    \* RemoteClientApplication
    app,                  \* the object's fields: device_type, is_connected, connection_state,
                          \* network_registered, udp_bound, listen_socket_id, signal_rsrp,
                          \* last_ping_notification, last_socketdata_notification,
                          \* last_socketcmd_notification, status_label,
                          \* device_profile, log_error (the [ERROR] line of the last profile update)
    command_input,        \* text of the message input box
    chat,                 \* display_chat_message calls so far
    connects,             \* presses of Connect so far
    gui,                  \* the handler the Tk main thread is running
    bringup,              \* per bring-up thread: its place in initialize_cellular_network
    rx,                   \* the receive thread's place in receive_udp_message
    \* the modem
    modem_seen,           \* lines of port_written the modem has acted on
    modem_out,            \* lines the modem has sent that the reader has not read yet
    faults,               \* commands rejected or left without notification so far
    downlink,             \* the datagram waiting in the modem: source, port, chunks left
    \* threads and calls next to the ones above
    previous_reader,      \* the _receive_loop thread started by the connect before the last one
    rx_second,            \* the second receive thread's place in receive_udp_message
    profile_result,       \* a query operation of the device profile: its argument and what it returned
    \* CommunicatorApp and the cloud API it polls
    communicator,         \* the object's fields: connected, sim_active, polling, last_harvest_ts,
                          \* _seen_harvest, and the [RECV] lines appended to its chat
    harvest               \* Soracom Harvest: the stored messages, the clock, the fetch in flight

chanVars == <<reader, buffer, serial_is_connected, port_open, stop_event, command_lock, response_queue,
              event_queue, port_written, pc, cur_cmd, responses, elapsed, result>>

loadVars == <<calls, lines_in>>

appVars == <<app, command_input, chat, connects, gui, bringup, rx>>

modemVars == <<modem_seen, modem_out, faults, downlink>>

sideVars == <<previous_reader, rx_second, profile_result, communicator, harvest>>

vars == <<chanVars, loadVars, appVars, modemVars, sideVars>>

(***************************************************************************)
(* SerialManager: the transport and the command channel.  Its actions      *)
(* constrain the SerialManager variables only.                             *)
(***************************************************************************)
NoResult == [ok |-> FALSE, text |-> "(none)"]

NoCommand == [text |-> "", timeout |-> ""]

DeviceTypes == {"nordic_thingy91x", "murata_type1sc_ntng"}

\* A bring-up thread that has not been started, the receive thread when none runs
NotStarted == [status |-> "none", ip |-> 0, ticks |-> 0, sock |-> None]

NoReceive ==
    [status |-> "none", ticks |-> 0, hex |-> "", ip |-> None, port |-> 0, more |-> 0, value |-> <<>>]

NoDatagram == [ip |-> "", port |-> 0, chunks |-> <<>>, sent |-> <<>>]

\* SerialManager.connect; serial.Serial raising is the branch that opens nothing
SerialConnect(opened) ==
    /\ IF opened
       THEN /\ port_open' = TRUE
            /\ serial_is_connected' = TRUE
            /\ stop_event' = FALSE
            /\ reader' = "running"
            /\ buffer' = ""
            /\ port_written' = <<>>
       ELSE UNCHANGED <<port_open, serial_is_connected, stop_event, reader, buffer, port_written>>
    /\ UNCHANGED <<command_lock, response_queue, event_queue, pc, cur_cmd, responses,
                   elapsed, result>>

\* SerialManager.disconnect; the reader's loop condition is false from here on
SerialDisconnect ==
    /\ stop_event' = TRUE
    /\ reader' = IF reader = "running" THEN "stopped" ELSE reader
    /\ port_open' = FALSE
    /\ serial_is_connected' = FALSE
    /\ UNCHANGED <<buffer, command_lock, response_queue, event_queue, port_written, pc, cur_cmd,
                   responses, elapsed, result>>

\* A reader that knows the + sigil only
IsUrcLine_PlusOnly(line) == StartsWith(Strip(line), "+")

\* _receive_loop's rule for one complete line: URCs start with + or %
IsUrcLine(line) == StartsWith(Strip(line), "+") \/ StartsWith(Strip(line), "%")

\* _receive_loop handling one complete line read from the port
ReceiveLine(line) ==
    /\ reader = "running"
    /\ serial_is_connected /\ ~stop_event /\ port_open
    /\ IF Strip(line) = ""
       THEN UNCHANGED <<event_queue, response_queue>>
       ELSE IF IsUrcLine(line)
            THEN /\ event_queue' = Append(event_queue, Strip(line))
                 /\ UNCHANGED response_queue
            ELSE /\ response_queue' = Append(response_queue, Strip(line))
                 /\ UNCHANGED event_queue
    /\ UNCHANGED <<reader, buffer, serial_is_connected, port_open, stop_event, command_lock, port_written,
                   pc, cur_cmd, responses, elapsed, result>>

\* A command channel without mutual exclusion
LockFree_NoLock == TRUE

\* `with self.command_lock`: the lock can be taken
LockFree == command_lock = NoThread

\* send_command: "Format as AT command if needed"
FormatCommand(command) ==
    IF StartsWith(Upper(command), "AT") THEN command ELSE "AT+" \o command

\* send_command: a result code ends the collection
IsResultCode(msg) == StartsWith(msg, "OK") \/ StartsWith(msg, "ERROR")

TimeoutText(timeout) == "Timeout: No response after " \o timeout \o "s"

\* send_command reporting success although nothing was received
SendCommandReturn_NoTimeout(resps, timeout) == [ok |-> TRUE, text |-> Join(" | ", resps)]

\* send_command: the value returned once the collection loop has ended
SendCommandReturn(resps, timeout) ==
    IF Len(resps) = 0
    THEN [ok |-> FALSE, text |-> TimeoutText(timeout)]
    ELSE [ok |-> TRUE, text |-> Join(" | ", resps)]

\* A call has returned `value` to its caller
Returned(c, value) ==
    /\ result' = [result EXCEPT ![c] = value]
    /\ pc' = [pc EXCEPT ![c] = "returned"]
    /\ cur_cmd' = [cur_cmd EXCEPT ![c] = NoCommand]
    /\ responses' = [responses EXCEPT ![c] = <<>>]
    /\ elapsed' = [elapsed EXCEPT ![c] = 0]

\* send_command up to the lock: the is_connected test
SendCommandCall(c, command, timeout) ==
    /\ pc[c] = "idle"
    /\ IF ~serial_is_connected
       THEN Returned(c, [ok |-> FALSE, text |-> "Not connected"])
       ELSE /\ pc' = [pc EXCEPT ![c] = "lock"]
            /\ cur_cmd' = [cur_cmd EXCEPT ![c] = [text |-> command, timeout |-> timeout]]
            /\ UNCHANGED <<result, responses, elapsed>>
    /\ UNCHANGED <<reader, buffer, serial_is_connected, port_open, stop_event, command_lock, response_queue,
                   event_queue, port_written>>

\* send_command: take the lock and write the command
SendCommandWrite(c) ==
    /\ pc[c] = "lock"
    /\ LockFree
    /\ IF port_open
       THEN /\ command_lock' = c
            /\ port_written' = Append(port_written, FormatCommand(cur_cmd[c].text) \o "\r\n")
            /\ pc' = [pc EXCEPT ![c] = "collect"]
            /\ UNCHANGED <<cur_cmd, result, responses, elapsed>>
       ELSE \* the write raises: `except Exception` returns (False, str(e)), lock released
            /\ Returned(c, [ok |-> FALSE, text |-> "write failed"])
            /\ UNCHANGED <<command_lock, port_written>>
    /\ UNCHANGED <<reader, buffer, serial_is_connected, port_open, stop_event, response_queue, event_queue>>

\* A send_command that gives the lock back as soon as it has the result code
CollectGet_ReleaseAtResult(c) ==
    /\ pc[c] = "collect"
    /\ elapsed[c] < CmdTimeoutTicks
    /\ Len(response_queue) > 0
    /\ response_queue' = Tail(response_queue)
    /\ responses' = [responses EXCEPT ![c] = Append(@, Head(response_queue))]
    /\ pc' = [pc EXCEPT ![c] = IF IsResultCode(Head(response_queue)) THEN "settle" ELSE "collect"]
    /\ command_lock' = IF IsResultCode(Head(response_queue)) THEN NoThread ELSE command_lock
    /\ UNCHANGED <<reader, buffer, serial_is_connected, port_open, stop_event, event_queue,
                   port_written, cur_cmd, elapsed, result>>

\* send_command: response_queue.get returned a line
CollectGet(c) ==
    /\ pc[c] = "collect"
    /\ elapsed[c] < CmdTimeoutTicks
    /\ Len(response_queue) > 0
    /\ response_queue' = Tail(response_queue)
    /\ responses' = [responses EXCEPT ![c] = Append(@, Head(response_queue))]
    /\ pc' = [pc EXCEPT ![c] = IF IsResultCode(Head(response_queue)) THEN "settle" ELSE "collect"]
    /\ UNCHANGED <<reader, buffer, serial_is_connected, port_open, stop_event, command_lock, event_queue,
                   port_written, cur_cmd, elapsed, result>>

\* send_command: response_queue.get(timeout=0.1) raised queue.Empty
CollectEmpty(c) ==
    /\ pc[c] = "collect"
    /\ elapsed[c] < CmdTimeoutTicks
    /\ Len(response_queue) = 0
    /\ elapsed' = [elapsed EXCEPT ![c] = @ + 1]
    /\ UNCHANGED <<reader, buffer, serial_is_connected, port_open, stop_event, command_lock, response_queue,
                   event_queue, port_written, pc, cur_cmd, responses, result>>

\* send_command: the loop condition fails (timeout elapsed)
CollectDeadline(c) ==
    /\ pc[c] = "collect"
    /\ elapsed[c] >= CmdTimeoutTicks
    /\ IF Len(responses[c]) = 0
       THEN /\ Returned(c, SendCommandReturn(responses[c], cur_cmd[c].timeout))
            /\ command_lock' = NoThread
       ELSE /\ pc' = [pc EXCEPT ![c] = "settle"]
            /\ UNCHANGED <<result, command_lock, cur_cmd, responses, elapsed>>
    /\ UNCHANGED <<reader, buffer, serial_is_connected, port_open, stop_event, response_queue, event_queue,
                   port_written>>

\* send_command: time.sleep(0.1) has passed; return and release the lock
Settle(c) ==
    /\ pc[c] = "settle"
    /\ Returned(c, SendCommandReturn(responses[c], cur_cmd[c].timeout))
    /\ command_lock' = NoThread
    /\ UNCHANGED <<reader, buffer, serial_is_connected, port_open, stop_event, response_queue, event_queue,
                   port_written>>

\* The caller has taken the returned value
TakeResult(c) ==
    /\ pc[c] = "returned"
    /\ pc' = [pc EXCEPT ![c] = "idle"]
    /\ result' = [result EXCEPT ![c] = NoResult]
    /\ UNCHANGED <<reader, buffer, serial_is_connected, port_open, stop_event, command_lock, response_queue,
                   event_queue, port_written, cur_cmd, responses, elapsed>>

(***************************************************************************)
(* DeviceProfileFactory.                                                   *)
(***************************************************************************)
NordicNames == {"nordic_thingy91x", "nordic", "thingy91x", "thingy"}

MurataNames == {"murata_type1sc_ntng", "murata", "type1sc", "murata_type1sc"}

UnsupportedText(device_type) ==
    "Unsupported device type: " \o device_type
        \o ". Supported types: 'nordic_thingy91x', 'murata_type1sc_ntng'"

\* A factory that compares the identifier as it was typed
Create_CaseSensitive(device_type) ==
    IF Strip(device_type) \in NordicNames
    THEN [profile |-> "NordicThingy91XProfile", error |-> None]
    ELSE IF Strip(device_type) \in MurataNames
         THEN [profile |-> "MurataType1SCProfile", error |-> None]
         ELSE [profile |-> None, error |-> UnsupportedText(device_type)]

\* DeviceProfileFactory.create: the profile returned, or the ValueError raised
Create(device_type) ==
    IF Strip(Lower(device_type)) \in NordicNames
    THEN [profile |-> "NordicThingy91XProfile", error |-> None]
    ELSE IF Strip(Lower(device_type)) \in MurataNames
         THEN [profile |-> "MurataType1SCProfile", error |-> None]
         ELSE [profile |-> None, error |-> UnsupportedText(device_type)]

\* DeviceProfileFactory.list_supported_devices
SupportedDevices ==
    { [id |-> "nordic_thingy91x", profile |-> "NordicThingy91XProfile",
       aliases |-> {"nordic", "thingy91x", "thingy"}],
      [id |-> "murata_type1sc_ntng", profile |-> "MurataType1SCProfile",
       aliases |-> {"murata", "type1sc", "murata_type1sc"}] }

\* The device type variable is set to `identifier` and _update_device_profile runs:
\* the profile kept and the [ERROR] line it logs, with the fallback to the default profile
UpdateDeviceProfile(identifier) ==
    /\ app' = IF Create(identifier).error = None
              THEN [app EXCEPT !.device_type = identifier,
                               !.device_profile = Create(identifier).profile,
                               !.log_error = ""]
              ELSE [app EXCEPT !.device_type = identifier,
                               !.device_profile = Create("nordic_thingy91x").profile,
                               !.log_error = "[ERROR] " \o Create(identifier).error]
    /\ UNCHANGED <<chanVars, command_input, chat, connects, gui, bringup, rx, modemVars>>


(***************************************************************************)
(* The threads, calls and objects that only some of the runs below follow; *)
(* in the other runs they stay as constructed.                             *)
(***************************************************************************)
\* No connect before the last one has started a reader
NoReader == [status |-> "none", buffer |-> "", reads |-> 0]

\* No query operation of the device profile has been called
NoQuery == [op |-> "none", line |-> "", status |-> "idle", response |-> NoResult, value |-> <<>>]

\* CommunicatorApp.__init__: not connected, no poll running, no cursor (None is <<>>),
\* nothing seen, and the one poll timer that _schedule_poll() has set
CommunicatorInit ==
    [connected |-> FALSE, sim_active |-> FALSE, polling |-> FALSE, last_harvest_ts |-> <<>>,
     seen_harvest |-> {}, chat |-> <<>>, timers |-> 1]

\* Soracom Harvest Data with nothing stored and no request being served
HarvestInit == [stored |-> {}, now |-> 1, fetches |-> <<>>]

SideInit ==
    /\ previous_reader = NoReader
    /\ rx_second = NoReceive
    /\ profile_result = NoQuery
    /\ communicator = CommunicatorInit
    /\ harvest = HarvestInit
\* The raw reset write of _handshake_device (Murata branch) and _send_and_wait_boot:
\* no is_connected test before the lock
ResetCall(c, cmd, timeout) ==
    /\ pc[c] = "idle"
    /\ pc' = [pc EXCEPT ![c] = "bootlock"]
    /\ cur_cmd' = [cur_cmd EXCEPT ![c] = [text |-> cmd, timeout |-> timeout]]
    /\ UNCHANGED <<reader, buffer, serial_is_connected, port_open, stop_event, command_lock, response_queue,
                   event_queue, port_written, responses, elapsed, result>>

\* A reset that leaves the `with serial_manager.command_lock:` block before the boot wait
ResetWrite_LockDroppedAfterWrite(c) ==
    /\ pc[c] = "bootlock"
    /\ LockFree
    /\ IF port_open
       THEN /\ command_lock' = NoThread
            /\ port_written' = Append(port_written, cur_cmd[c].text \o "\r\n")
            /\ pc' = [pc EXCEPT ![c] = "bootevt"]
            /\ UNCHANGED <<cur_cmd, result, responses, elapsed>>
       ELSE /\ Returned(c, [ok |-> FALSE, text |-> ""])
            /\ UNCHANGED <<command_lock, port_written>>
    /\ UNCHANGED <<reader, buffer, serial_is_connected, port_open, stop_event, response_queue, event_queue>>

\* `with serial_manager.command_lock:` then serial_port.write
ResetWrite(c) ==
    /\ pc[c] = "bootlock"
    /\ LockFree
    /\ IF port_open
       THEN /\ command_lock' = c
            /\ port_written' = Append(port_written, cur_cmd[c].text \o "\r\n")
            /\ pc' = [pc EXCEPT ![c] = "bootevt"]
            /\ UNCHANGED <<cur_cmd, result, responses, elapsed>>
       ELSE /\ Returned(c, [ok |-> FALSE, text |-> ""])
            /\ UNCHANGED <<command_lock, port_written>>
    /\ UNCHANGED <<reader, buffer, serial_is_connected, port_open, stop_event, response_queue, event_queue>>

IsBootEvent(evt) == Contains(evt, "%BOOTEV:0")

\* boot wait: event_queue.get(timeout=0.2) returned an event
BootEvtGet(c) ==
    /\ pc[c] = "bootevt"
    /\ elapsed[c] < BootTimeoutTicks
    /\ Len(event_queue) > 0
    /\ event_queue' = Tail(event_queue)
    /\ IF IsBootEvent(Head(event_queue))
       THEN /\ Returned(c, [ok |-> TRUE, text |-> ""])
            /\ command_lock' = NoThread
       ELSE /\ pc' = [pc EXCEPT ![c] = "bootresp"]
            /\ UNCHANGED <<result, command_lock, cur_cmd, responses, elapsed>>
    /\ UNCHANGED <<reader, buffer, serial_is_connected, port_open, stop_event, response_queue, port_written>>

\* boot wait: event_queue.get(timeout=0.2) raised queue.Empty
BootEvtEmpty(c) ==
    /\ pc[c] = "bootevt"
    /\ elapsed[c] < BootTimeoutTicks
    /\ Len(event_queue) = 0
    /\ elapsed' = [elapsed EXCEPT ![c] = @ + 1]
    /\ pc' = [pc EXCEPT ![c] = "bootresp"]
    /\ UNCHANGED <<reader, buffer, serial_is_connected, port_open, stop_event, command_lock, response_queue,
                   event_queue, port_written, cur_cmd, responses, result>>

\* boot wait: "Also drain response queue" (one get_nowait per iteration)
BootRespDrain(c) ==
    /\ pc[c] = "bootresp"
    /\ response_queue' = IF Len(response_queue) > 0 THEN Tail(response_queue) ELSE response_queue
    /\ pc' = [pc EXCEPT ![c] = "bootevt"]
    /\ UNCHANGED <<reader, buffer, serial_is_connected, port_open, stop_event, command_lock, event_queue,
                   port_written, cur_cmd, responses, elapsed, result>>

\* boot wait: the loop condition fails; got_boot is False
BootDeadline(c) ==
    /\ pc[c] = "bootevt"
    /\ elapsed[c] >= BootTimeoutTicks
    /\ Returned(c, [ok |-> FALSE, text |-> ""])
    /\ command_lock' = NoThread
    /\ UNCHANGED <<reader, buffer, serial_is_connected, port_open, stop_event, response_queue, event_queue,
                   port_written>>

\* A step of thread c inside send_command or the boot wait, after the call
ChannelStep(c) ==
    \/ SendCommandWrite(c) \/ CollectGet(c) \/ CollectEmpty(c) \/ CollectDeadline(c)
    \/ Settle(c) \/ ResetWrite(c) \/ BootEvtGet(c) \/ BootEvtEmpty(c)
    \/ BootRespDrain(c) \/ BootDeadline(c)

(***************************************************************************)
(* The bare command channel: every thread may call send_command, the GUI   *)
(* and the bring-up thread may reset the modem, the user may disconnect    *)
(* and connect, and the modem sends any line at any time.                  *)
(***************************************************************************)
ModemLines == {"OK", "ERROR", "data", "%BOOTEV:0"}

ChanCallers == {GuiThread, ReceiveThread, BringupThread(1)}

ResetCallers == {GuiThread, BringupThread(1)}

ChanInit ==
    /\ reader = "none"
    /\ buffer = ""
    /\ serial_is_connected = FALSE
    /\ port_open = FALSE
    /\ stop_event = FALSE
    /\ command_lock = NoThread
    /\ response_queue = <<>>
    /\ event_queue = <<>>
    /\ port_written = <<>>
    /\ pc = [c \in Callers |-> "idle"]
    /\ cur_cmd = [c \in Callers |-> NoCommand]
    /\ responses = [c \in Callers |-> <<>>]
    /\ elapsed = [c \in Callers |-> 0]
    /\ result = [c \in Callers |-> NoResult]

\* RemoteClientApplication.__init__
AppInit ==
    /\ app \in {[device_type |-> d, is_connected |-> FALSE, connection_state |-> "disconnected",
                 network_registered |-> FALSE, udp_bound |-> FALSE, listen_socket_id |-> None,
                 signal_rsrp |-> 0, last_ping_notification |-> None,
                 last_socketdata_notification |-> None, last_socketcmd_notification |-> None,
                 status_label |-> "Status: Disconnected",
                 device_profile |-> Create(d).profile, log_error |-> ""] :
                d \in DeviceTypes}
    /\ command_input = ""
    /\ chat = <<>>
    /\ connects = 0
    /\ gui = "idle"
    /\ bringup = [b \in BringupThreads |-> NotStarted]
    /\ rx = NoReceive

\* A modem that has been sent nothing and has nothing to say
ModemInit ==
    /\ modem_seen = 0
    /\ modem_out = <<>>
    /\ faults = 0
    /\ downlink = NoDatagram

Init ==
    /\ ChanInit
    /\ calls = 0
    /\ lines_in = 0
    /\ SideInit
    /\ AppInit
    /\ app.device_type = "nordic_thingy91x"
    /\ ModemInit

OneMoreCall == calls < MaxCalls /\ calls' = calls + 1 /\ UNCHANGED <<lines_in, sideVars>>

Next ==
    \/ ~serial_is_connected /\ (\E opened \in BOOLEAN : SerialConnect(opened)) /\ UNCHANGED <<loadVars, sideVars, appVars, modemVars>>
    \/ serial_is_connected /\ SerialDisconnect /\ UNCHANGED <<loadVars, sideVars, appVars, modemVars>>
    \/ \E line \in ModemLines :
          /\ lines_in < MaxLines
          /\ lines_in' = lines_in + 1
          /\ ReceiveLine(line)
          /\ UNCHANGED <<calls, sideVars, appVars, modemVars>>
    \/ \E c \in ChanCallers :
          SendCommandCall(c, "AT", "3.0") /\ OneMoreCall /\ UNCHANGED <<appVars, modemVars>>
    \/ \E c \in ResetCallers :
          ResetCall(c, "ATZ", "15.0") /\ OneMoreCall /\ UNCHANGED <<appVars, modemVars>>
    \/ \E c \in ChanCallers : SendCommandWrite(c) /\ UNCHANGED <<loadVars, sideVars, appVars, modemVars>>
    \/ \E c \in ChanCallers : CollectGet(c) /\ UNCHANGED <<loadVars, sideVars, appVars, modemVars>>
    \/ \E c \in ChanCallers : CollectEmpty(c) /\ UNCHANGED <<loadVars, sideVars, appVars, modemVars>>
    \/ \E c \in ChanCallers : CollectDeadline(c) /\ UNCHANGED <<loadVars, sideVars, appVars, modemVars>>
    \/ \E c \in ChanCallers : Settle(c) /\ UNCHANGED <<loadVars, sideVars, appVars, modemVars>>
    \/ \E c \in ChanCallers : TakeResult(c) /\ UNCHANGED <<loadVars, sideVars, appVars, modemVars>>
    \/ \E c \in ChanCallers : ResetWrite(c) /\ UNCHANGED <<loadVars, sideVars, appVars, modemVars>>
    \/ \E c \in ChanCallers : BootEvtGet(c) /\ UNCHANGED <<loadVars, sideVars, appVars, modemVars>>
    \/ \E c \in ChanCallers : BootEvtEmpty(c) /\ UNCHANGED <<loadVars, sideVars, appVars, modemVars>>
    \/ \E c \in ChanCallers : BootRespDrain(c) /\ UNCHANGED <<loadVars, sideVars, appVars, modemVars>>
    \/ \E c \in ChanCallers : BootDeadline(c) /\ UNCHANGED <<loadVars, sideVars, appVars, modemVars>>

Spec == Init /\ [][Next]_vars

\* Every thread is scheduled again and again (the interpreter's thread switching)
FairSpec ==
    Spec /\ \A c \in ChanCallers : WF_vars((ChannelStep(c) \/ TakeResult(c)) /\ UNCHANGED <<loadVars, sideVars, appVars, modemVars>>)

(***************************************************************************)
(* RemoteClientApplication: the URC router (poll_serial, handle_urc).      *)
(***************************************************************************)
\* The first comma-separated field after the first colon, or None when the message
\* has no colon (IndexError)
FirstField(message) ==
    IF Len(Split(message, ":")) < 2
    THEN None
    ELSE Split(Strip(Split(message, ":")[2]), ",")[1]

\* handle_urc, +CEREG branch: network_registered after the dispatch
CeregStatus_QueryReplyAsNotice(message, registered) ==
    IF IntParses(FirstField(message)) THEN ToInt(FirstField(message)) \in {1, 5} ELSE registered

CeregStatus(message, registered) ==
    IF Len(Split(message, ":")) < 2
    THEN registered
    ELSE LET parts == Split(Strip(Split(message, ":")[2]), ",")
         IN  IF Len(parts) = 2 /\ ~Contains(message, "\"")
             THEN registered
             ELSE IF IntParses(parts[1]) THEN ToInt(parts[1]) \in {1, 5} ELSE registered

\* handle_urc when the %CESQ branch stored the sentinel like any other value
CesqRsrp_NoSentinel(message, rsrp) ==
    IF IntParses(FirstField(message))
    THEN ToInt(FirstField(message)) - 141
    ELSE rsrp

\* handle_urc, %CESQ branch: signal_quality["rsrp"] after the dispatch
CesqRsrp(message, rsrp) ==
    IF IntParses(FirstField(message)) /\ ToInt(FirstField(message)) # 255
    THEN ToInt(FirstField(message)) - 141
    ELSE rsrp

\* handle_urc when the %SOCKETEV branch did not compare the socket id with the listen socket
SpawnsReceive_AnySocket(message, listen_id) ==
    \/ /\ StartsWith(message, "+CSCON")
       /\ IntParses(FirstField(message))
       /\ ToInt(FirstField(message)) = 1
    \/ /\ StartsWith(message, "%SOCKETEV")
       /\ Len(Split(message, ":")) >= 2
       /\ LET parts == Split(Strip(Split(message, ":")[2]), ",")
          IN  /\ Len(parts) >= 2
              /\ IntParses(parts[1]) /\ IntParses(parts[2])
              /\ listen_id \notin {None, ""}
              /\ IntParses(listen_id)

\* handle_urc, +CSCON and %SOCKETEV branches: a receive thread is started
SpawnsReceive(message, listen_id) ==
    \/ /\ StartsWith(message, "+CSCON")
       /\ IntParses(FirstField(message))
       /\ ToInt(FirstField(message)) = 1
    \/ /\ StartsWith(message, "%SOCKETEV")
       /\ Len(Split(message, ":")) >= 2
       /\ LET parts == Split(Strip(Split(message, ":")[2]), ",")
          IN  /\ Len(parts) >= 2
              /\ IntParses(parts[1]) /\ IntParses(parts[2])
              /\ listen_id \notin {None, ""}
              /\ IntParses(listen_id)
              /\ ToInt(parts[2]) = ToInt(listen_id)

\* handle_urc(message)
HandleUrc(message) ==
    /\ app' = [app EXCEPT
          !.network_registered =
              IF StartsWith(message, "+CEREG") THEN CeregStatus(message, @) ELSE @,
          !.signal_rsrp = IF StartsWith(message, "%CESQ") THEN CesqRsrp(message, @) ELSE @,
          !.last_ping_notification = IF StartsWith(message, "%PINGCMD") THEN message ELSE @,
          !.last_socketdata_notification =
              IF StartsWith(message, "%SOCKETDATA") THEN message ELSE @,
          !.last_socketcmd_notification =
              IF StartsWith(message, "%SOCKETCMD") THEN message ELSE @]
    /\ rx' = IF SpawnsReceive(message, app.listen_socket_id)
             THEN [NoReceive EXCEPT !.status = "start"]
             ELSE rx

\* poll_serial when handle_urc called receive_udp_message itself instead of starting a
\* thread for it
PollSerial_ReceivesInline ==
    /\ gui \in {"idle", "failed"}
    /\ app.is_connected
    /\ Len(event_queue) > 0
    /\ SpawnsReceive(Head(event_queue), app.listen_socket_id) => rx.status = "none"
    /\ event_queue' = Tail(event_queue)
    /\ HandleUrc(Head(event_queue))
    /\ IF SpawnsReceive(Head(event_queue), app.listen_socket_id) /\ pc[GuiThread] = "idle"
       THEN /\ pc' = [pc EXCEPT ![GuiThread] = "lock"]
            /\ cur_cmd' = [cur_cmd EXCEPT ![GuiThread] = [text |-> "AT#XRECVFROM=" \o ToStr(UdpBufferSize),
                                                          timeout |-> "5.0"]]
       ELSE UNCHANGED <<pc, cur_cmd>>
    /\ UNCHANGED <<reader, buffer, serial_is_connected, port_open, stop_event, command_lock, response_queue,
                   port_written, responses, elapsed, result>>
    /\ UNCHANGED <<command_input, chat, connects, gui, bringup, modemVars>>

\* poll_serial taking one event off the event queue.  The timer callback runs on the
\* Tk main thread between handlers, and inside the event loop of an error dialog.
PollSerial ==
    /\ gui \in {"idle", "failed"}
    /\ app.is_connected
    /\ Len(event_queue) > 0
    /\ SpawnsReceive(Head(event_queue), app.listen_socket_id) => rx.status = "none"
    /\ event_queue' = Tail(event_queue)
    /\ HandleUrc(Head(event_queue))
    /\ UNCHANGED <<reader, buffer, serial_is_connected, port_open, stop_event, command_lock, response_queue,
                   port_written, pc, cur_cmd, responses, elapsed, result>>
    /\ UNCHANGED <<command_input, chat, connects, gui, bringup, modemVars>>

(***************************************************************************)
(* RemoteClientApplication: connect, _handshake_device, disconnect.        *)
(***************************************************************************)
IsNordic(device) == StartsWith(Lower(device), "nordic") \/ Contains(Lower(device), "thingy")

IsMurata(device) == Contains(Lower(device), "murata") \/ Contains(Lower(device), "type1sc")

\* connect up to the handshake; the Connect button is enabled while disconnected
Connect(opened) ==
    /\ gui = "idle"
    /\ app.connection_state = "disconnected"
    /\ connects' = connects + 1
    /\ SerialConnect(opened)
    /\ IF opened
       THEN /\ app' = [app EXCEPT !.network_registered = FALSE,
                                  !.connection_state = "connecting",
                                  !.status_label = "Status: Connecting...",
                                  !.is_connected = TRUE]
            /\ gui' = "handshake"
            /\ modem_seen' = 0
            /\ modem_out' = <<>>
       ELSE /\ app' = [app EXCEPT !.network_registered = FALSE,
                                  !.connection_state = "disconnected",
                                  !.status_label = "Status: Connecting..."]
            /\ UNCHANGED <<gui, modem_seen, modem_out>>
    /\ UNCHANGED <<command_input, chat, bringup, rx, faults, downlink>>

\* _handshake_device: AT through send_command, or the raw ATZ write and boot wait
HandshakeCall ==
    /\ gui = "handshake"
    /\ IF ~IsNordic(app.device_type) /\ IsMurata(app.device_type)
       THEN ResetCall(GuiThread, "ATZ", "30.0")
       ELSE SendCommandCall(GuiThread, "AT", "3.0")
    /\ gui' = "handshaking"
    /\ UNCHANGED <<app, command_input, chat, connects, bringup, rx, modemVars>>

\* connect after _handshake_device returned: start the bring-up thread, or show the
\* error dialog
HandshakeReturn ==
    /\ gui = "handshaking"
    /\ pc[GuiThread] = "returned"
    /\ TakeResult(GuiThread)
    /\ IF result[GuiThread].ok
       THEN /\ app' = [app EXCEPT !.connection_state = "connected",
                                  !.status_label = "Status: Connected"]
            /\ gui' = "idle"
            /\ bringup' = [bringup EXCEPT ![BringupThread(connects)] =
                              [NotStarted EXCEPT !.status = "running", !.ip = 1]]
       ELSE /\ gui' = "failed"
            /\ UNCHANGED <<app, bringup>>
    /\ UNCHANGED <<command_input, chat, connects, rx, modemVars>>

\* disconnect: the Disconnect button (enabled while connected), or connect after a
\* failed handshake
Disconnect ==
    /\ \/ gui = "idle" /\ app.connection_state = "connected"
       \/ gui = "failed"
    /\ SerialDisconnect
    /\ app' = [app EXCEPT !.is_connected = FALSE,
                          !.connection_state = "disconnected",
                          !.status_label = "Status: Disconnected",
                          !.network_registered = FALSE,
                          !.udp_bound = FALSE]
    /\ gui' = "idle"
    /\ UNCHANGED <<command_input, chat, connects, bringup, rx, modemVars>>

(***************************************************************************)
(* initialize_cellular_network and the device profiles' bring-up           *)
(* operations, as the sequence of steps the bring-up thread runs.          *)
(*   cmd      send_command; failure ends the bring-up                      *)
(*   cmd_any  send_command; the result is not looked at                    *)
(*   boot     _send_and_wait_boot                                          *)
(*   gnss     _wait_for_gnss_fix                                           *)
(*   wait     a polling wait on application state                          *)
(* `pre` names what runs just before the command is sent.                  *)
(***************************************************************************)
Cmd(text, timeout, phase) ==
    [op |-> "cmd", text |-> text, timeout |-> timeout, phase |-> phase, pre |-> {}]

Step(op, text, phase) ==
    [op |-> op, text |-> text, timeout |-> "", phase |-> phase, pre |-> {}]

PdpCommand == "AT+CGDCONT=1,\"IP\",\"soracom.io\""

\* NordicThingy91XProfile and the application's steps around it
NordicProgram ==
    << Cmd("AT+CFUN=0", "3.0", "init"),
       Cmd("AT+CEREG=5", "3.0", "init"),
       Cmd("AT+CSCON=1", "3.0", "init"),
       Cmd("AT%XSYSTEMMODE=1,0,1,0", "3.0", "init"),
       Cmd("AT+CFUN=1", "3.0", "init"),
       Step("wait", "registration", "registration"),
       [Cmd("AT%CESQ=1", "3.0", "signal") EXCEPT !.op = "cmd_any"],
       Cmd(PdpCommand, "3.0", "pdp"),
       Cmd("AT#XSOCKET=1,2,0", "3.0", "socket"),
       [Cmd("AT#XBIND=" \o ToStr(UdpPort), "3.0", "bind") EXCEPT !.pre = {"connected"}] >>

\* MurataType1SCProfile.initialize_network
MurataInitProgram ==
    << Cmd("AT+CPIN?", "10.0", "init"),
       Cmd("AT%SETACFG=\"manager.urcBootEv.enabled\",\"true\"", "10.0", "init"),
       Cmd("AT%SETCFG=\"SIM_INIT_SELECT_POLICY\",\"0\"", "10.0", "init"),
       Step("boot", "ATZ", "init"),
       Cmd("AT%SETACFG=\"radiom.config.multi_rat_enable\",\"true\"", "10.0", "init"),
       Cmd("AT%SETACFG=\"radiom.config.preferred_rat_list\",\"none\"", "10.0", "init"),
       Cmd("AT%SETACFG=\"radiom.config.auto_preference_mode\",\"none\"", "10.0", "init"),
       Cmd("AT%SETACFG=\"locsrv.operation.locsrv_enable\",\"true\"", "10.0", "init"),
       Cmd("AT%SETACFG=\"locsrv.internal_gnss.auto_restart\",\"enable\"", "10.0", "init"),
       Cmd("AT%SETACFG=\"modem_apps.Mode.AutoConnectMode\",\"true\"", "10.0", "init"),
       Step("boot", "ATZ", "init"),
       Cmd("AT+CSIM=52,\"80C2000015D613190103820282811B0100130799F08900010001\"", "10.0", "init"),
       Cmd("AT%RATIMGSEL=2", "10.0", "init"),
       Cmd("AT%RATACT=\"NBNTN\",\"1\"", "10.0", "init"),
       Cmd("AT%SETCFG=\"BAND\",\"256\"", "10.0", "init"),
       Cmd("AT+CFUN=0", "10.0", "init"),
       Cmd("AT%IGNSSEV=\"FIX\",1", "10.0", "init"),
       Cmd("AT%NOTIFYEV=\"SIB31\",1", "10.0", "init"),
       Cmd("AT%IGNSSACT=0", "10.0", "init"),
       Cmd("AT%IGNSSACT=1", "10.0", "init"),
       Step("gnss", "", "init"),
       Cmd("AT+CEREG=2", "10.0", "init"),
       Cmd("AT+CFUN=1", "10.0", "init") >>

\* The application's steps and MurataType1SCProfile.activate_pdp_context,
\* open_socket_connection and bind_udp_port
MurataProgram ==
    MurataInitProgram \o
    << Step("wait", "registration", "registration"),
       [Cmd("AT%CESQ=1", "3.0", "signal") EXCEPT !.op = "cmd_any"],
       Cmd(PdpCommand, "10.0", "pdp"),
       [Cmd("AT%PINGCMD=0,\"100.127.100.127\",1,50,30", "15.0", "pdp")
            EXCEPT !.pre = {"clear_ping"}],
       Step("wait", "ping", "pdp"),
       Cmd("AT%SOCKETEV=0,1", "5.0", "socket"),
       [Cmd("AT%SOCKETCMD=\"ALLOCATE\",1,\"UDP\",\"OPEN\",\"harvest.soracom.io\",8514",
            "10.0", "socket") EXCEPT !.pre = {"clear_socketcmd"}],
       Step("wait", "allocation", "socket"),
       Cmd("AT%SOCKETCMD=\"ACTIVATE\",1", "10.0", "socket"),
       [Cmd("AT%SOCKETCMD=\"ALLOCATE\",1,\"UDP\",\"LISTEN\",\"0.0.0.0\",," \o ToStr(UdpPort),
            "8.0", "bind") EXCEPT !.op = "cmd_listen", !.pre = {"connected", "clear_socketcmd"}],
       Step("wait", "listen_allocation", "bind"),
       [Cmd("AT%SOCKETCMD=\"ACTIVATE\",", "8.0", "bind") EXCEPT !.op = "cmd_activate"] >>

\* The profile DeviceProfileFactory.create gives for the selected device
Program(device) == IF device = "murata_type1sc_ntng" THEN MurataProgram ELSE NordicProgram

CurrentStep(b) == Program(app.device_type)[bringup[b].ip]

\* The run of digits s starts with
RECURSIVE LeadingDigits(_)
LeadingDigits(s) ==
    IF Len(s) > 0 /\ Contains(Digits, Char(s, 1))
    THEN Char(s, 1) \o LeadingDigits(Tail(s))
    ELSE ""

\* re.search(r'%SOCKETCMD:(\d+)', text): the socket id, or None without a match
SocketCmdId(text) ==
    LET i == Find(text, "%SOCKETCMD:")
        id == LeadingDigits(SubSeq(text, i + Len("%SOCKETCMD:"), Len(text)))
    IN  IF i = 0 \/ id = "" THEN None ELSE id

\* The bring-up thread goes on to its next step with the application fields a; after
\* the last step bind_udp_port sets udp_bound and initialize_cellular_network returns
Advance(b, a, sock) ==
    IF bringup[b].ip = Len(Program(app.device_type))
    THEN /\ bringup' = [bringup EXCEPT ![b] = [@ EXCEPT !.status = "ready", !.ticks = 0]]
         /\ app' = [a EXCEPT !.udp_bound = TRUE]
    ELSE /\ bringup' = [bringup EXCEPT ![b] =
                          [@ EXCEPT !.ip = @ + 1, !.ticks = 0, !.sock = sock]]
         /\ app' = a

\* A sequencer that starts the failed step again
Fail_Retry(b, a) ==
    /\ bringup' = [bringup EXCEPT ![b] = [@ EXCEPT !.ticks = 0]]
    /\ app' = a

\* The step failed: initialize_cellular_network returns False; a failed profile
\* bind_udp_port also clears udp_bound
Fail(b, a) ==
    /\ bringup' = [bringup EXCEPT ![b] = [@ EXCEPT !.status = "failed", !.ticks = 0]]
    /\ app' = IF CurrentStep(b).phase = "bind" THEN [a EXCEPT !.udp_bound = FALSE] ELSE a

StepText(b) ==
    IF CurrentStep(b).op = "cmd_activate"
    THEN CurrentStep(b).text \o bringup[b].sock
    ELSE CurrentStep(b).text

\* The bring-up thread calls send_command or _send_and_wait_boot for its step
BringupCall(b) ==
    /\ bringup[b].status = "running"
    /\ pc[b] = "idle"
    /\ CurrentStep(b).op \in {"cmd", "cmd_any", "cmd_listen", "cmd_activate", "boot"}
    /\ IF "connected" \in CurrentStep(b).pre /\ ~app.is_connected
       THEN \* RemoteClientApplication.bind_udp_port: "Cannot bind UDP port - not connected"
            /\ bringup' = [bringup EXCEPT ![b] = [@ EXCEPT !.status = "failed"]]
            /\ UNCHANGED <<app, chanVars>>
       ELSE /\ app' = [app EXCEPT
                  !.last_ping_notification =
                      IF "clear_ping" \in CurrentStep(b).pre THEN None ELSE @,
                  !.last_socketcmd_notification =
                      IF "clear_socketcmd" \in CurrentStep(b).pre THEN None ELSE @]
            /\ IF CurrentStep(b).op = "boot"
               THEN ResetCall(b, CurrentStep(b).text, "15.0")
               ELSE SendCommandCall(b, StepText(b), CurrentStep(b).timeout)
            /\ UNCHANGED bringup
    /\ UNCHANGED <<command_input, chat, connects, gui, rx, modemVars>>

\* A sequencer that checks the result of every call, monitor_signal_quality's too
BringupReturn_EveryResultChecked(b) ==
    /\ bringup[b].status = "running"
    /\ pc[b] = "returned"
    /\ TakeResult(b)
    /\ IF result[b].ok
       THEN Advance(b, app, bringup[b].sock)
       ELSE IF CurrentStep(b).op = "cmd_listen"
            THEN \* "LISTEN allocation failed or not applicable": bind_udp_port returns True
                 /\ bringup' = [bringup EXCEPT ![b] = [@ EXCEPT !.status = "ready"]]
                 /\ app' = [app EXCEPT !.udp_bound = TRUE]
            ELSE Fail(b, app)
    /\ UNCHANGED <<command_input, chat, connects, gui, rx, modemVars>>

\* The call returned: `if not success: return False`
BringupReturn(b) ==
    /\ bringup[b].status = "running"
    /\ pc[b] = "returned"
    /\ TakeResult(b)
    /\ IF result[b].ok \/ CurrentStep(b).op = "cmd_any"
       THEN Advance(b, app, bringup[b].sock)
       ELSE IF CurrentStep(b).op = "cmd_listen"
            THEN \* "LISTEN allocation failed or not applicable": bind_udp_port returns True
                 /\ bringup' = [bringup EXCEPT ![b] = [@ EXCEPT !.status = "ready"]]
                 /\ app' = [app EXCEPT !.udp_bound = TRUE]
            ELSE Fail(b, app)
    /\ UNCHANGED <<command_input, chat, connects, gui, rx, modemVars>>

\* What a polling wait looks at
WaitSatisfied(wait) ==
    IF wait = "registration" THEN app.network_registered
    ELSE IF wait = "ping"
         THEN app.last_ping_notification \notin {None, ""}
                /\ Contains(app.last_ping_notification, "%PINGCMD")
         ELSE app.last_socketcmd_notification \notin {None, ""}

\* A polling wait finds what it waits for
WaitHit(b) ==
    /\ bringup[b].status = "running"
    /\ CurrentStep(b).op = "wait"
    /\ bringup[b].ticks < WaitTimeoutTicks
    /\ WaitSatisfied(CurrentStep(b).text)
    /\ IF CurrentStep(b).text = "allocation"
       THEN Advance(b, [app EXCEPT !.last_socketcmd_notification = None], bringup[b].sock)
       ELSE IF CurrentStep(b).text = "listen_allocation"
            THEN Advance(b, [app EXCEPT
                                !.last_socketcmd_notification = None,
                                !.listen_socket_id = SocketCmdId(app.last_socketcmd_notification)],
                         SocketCmdId(app.last_socketcmd_notification))
            ELSE Advance(b, app, bringup[b].sock)
    /\ UNCHANGED <<chanVars, command_input, chat, connects, gui, rx, modemVars>>

\* A polling wait sleeps for one interval
WaitTick(b) ==
    /\ bringup[b].status = "running"
    /\ CurrentStep(b).op = "wait"
    /\ bringup[b].ticks < WaitTimeoutTicks
    /\ ~WaitSatisfied(CurrentStep(b).text)
    /\ bringup' = [bringup EXCEPT ![b] = [@ EXCEPT !.ticks = @ + 1]]
    /\ UNCHANGED <<chanVars, app, command_input, chat, connects, gui, rx, modemVars>>

\* A polling wait's loop condition fails: the registration and the ping wait return
\* False, the allocation waits go on ("proceeding with ACTIVATE", socket "1")
WaitDeadline(b) ==
    /\ bringup[b].status = "running"
    /\ CurrentStep(b).op = "wait"
    /\ bringup[b].ticks >= WaitTimeoutTicks
    /\ IF CurrentStep(b).text = "allocation"
       THEN Advance(b, app, bringup[b].sock)
       ELSE IF CurrentStep(b).text = "listen_allocation"
            THEN Advance(b, [app EXCEPT !.listen_socket_id = "1"], "1")
            ELSE Fail(b, app)
    /\ UNCHANGED <<chanVars, command_input, chat, connects, gui, rx, modemVars>>

IsGnssFix(evt) == Contains(evt, "%IGNSSEVU:") /\ Contains(evt, "FIX")

\* _wait_for_gnss_fix: event_queue.get(timeout=1.0) returned an event
GnssGet(b) ==
    /\ bringup[b].status = "running"
    /\ CurrentStep(b).op = "gnss"
    /\ bringup[b].ticks < WaitTimeoutTicks
    /\ Len(event_queue) > 0
    /\ event_queue' = Tail(event_queue)
    /\ IF IsGnssFix(Head(event_queue))
       THEN Advance(b, app, bringup[b].sock)
       ELSE UNCHANGED <<bringup, app>>
    /\ UNCHANGED <<reader, buffer, serial_is_connected, port_open, stop_event, command_lock, response_queue,
                   port_written, pc, cur_cmd, responses, elapsed, result>>
    /\ UNCHANGED <<command_input, chat, connects, gui, rx, modemVars>>

\* _wait_for_gnss_fix: event_queue.get(timeout=1.0) raised queue.Empty
GnssEmpty(b) ==
    /\ bringup[b].status = "running"
    /\ CurrentStep(b).op = "gnss"
    /\ bringup[b].ticks < WaitTimeoutTicks
    /\ Len(event_queue) = 0
    /\ bringup' = [bringup EXCEPT ![b] = [@ EXCEPT !.ticks = @ + 1]]
    /\ UNCHANGED <<chanVars, app, command_input, chat, connects, gui, rx, modemVars>>

\* A GNSS wait whose timeout only logs: initialize_network goes on without a fix
GnssDeadline_Proceeds(b) ==
    /\ bringup[b].status = "running"
    /\ CurrentStep(b).op = "gnss"
    /\ bringup[b].ticks >= WaitTimeoutTicks
    /\ Advance(b, app, bringup[b].sock)
    /\ UNCHANGED <<chanVars, command_input, chat, connects, gui, rx, modemVars>>

\* _wait_for_gnss_fix: the loop condition fails
GnssDeadline(b) ==
    /\ bringup[b].status = "running"
    /\ CurrentStep(b).op = "gnss"
    /\ bringup[b].ticks >= WaitTimeoutTicks
    /\ Fail(b, app)
    /\ UNCHANGED <<chanVars, command_input, chat, connects, gui, rx, modemVars>>

(***************************************************************************)
(* The modem, as the source expects it to answer.                          *)
(***************************************************************************)
RegisteredNotice == "+CEREG: 1,\"76C1\",\"0140F813\",7"

GnssFixNotice == "%IGNSSEVU:\"FIX\",1,\"12:00:00\",\"01/01/2026\",\"52.1\",\"4.3\""

PingNotice == "%PINGCMD:1,\"100.127.100.127\",50,120"

IsReceiveCommand(cmd) ==
    StartsWith(cmd, "AT#XRECVFROM=") \/ StartsWith(cmd, "AT%SOCKETDATA=\"RECEIVE\"")

\* #XRECVFROM: <size>,"<ip_addr>",<port> followed by <data>
XRecvFromReply(dl) ==
    << "#XRECVFROM: " \o ToStr(Len(dl.chunks[1])) \o ",\"" \o dl.ip \o "\"," \o ToStr(dl.port),
       dl.chunks[1],
       "OK" >>

\* %SOCKETDATA:<socket_id>,<rlength>,<moreData>,"<rdata>","<src_ip>",<src_port>
SocketDataReply(cmd, dl) ==
    << "%SOCKETDATA:" \o Split(cmd, ",")[2] \o "," \o ToStr(Len(dl.chunks[1]) \div 2) \o ","
          \o (IF Len(dl.chunks) > 1 THEN "1" ELSE "0") \o ",\"" \o dl.chunks[1] \o "\",\""
          \o dl.ip \o "\"," \o ToStr(dl.port),
       "OK" >>

\* The lines the modem sends in answer to a command
NormalReply(cmd, dl) ==
    IF cmd = "ATZ" THEN <<"OK", "%BOOTEV:0">>
    ELSE IF cmd = "AT+CFUN=1" THEN <<"OK", RegisteredNotice>>
    ELSE IF cmd = "AT%IGNSSACT=1" THEN <<"OK", GnssFixNotice>>
    ELSE IF StartsWith(cmd, "AT%PINGCMD=") THEN <<"OK", PingNotice>>
    ELSE IF StartsWith(cmd, "AT%SOCKETCMD=\"ALLOCATE\"")
         THEN <<IF Contains(cmd, "\"LISTEN\"") THEN "%SOCKETCMD:2" ELSE "%SOCKETCMD:1", "OK">>
    ELSE IF StartsWith(cmd, "AT#XSENDTO=") /\ Len(Split(cmd, "\"")) >= 4
         THEN <<"#XSENDTO: " \o ToStr(Len(Split(cmd, "\"")[4])), "OK">>
    ELSE IF IsReceiveCommand(cmd) /\ Len(dl.chunks) > 0
         THEN IF StartsWith(cmd, "AT#XRECVFROM=")
              THEN XRecvFromReply(dl)
              ELSE SocketDataReply(cmd, dl)
    ELSE <<"OK">>

\* A command rejected, or answered without its notification
FaultReplies(cmd, dl) ==
    {<<"ERROR">>} \cup (IF Len(NormalReply(cmd, dl)) > 1 THEN {<<"OK">>} ELSE {})

\* The modem acts on the next line written to the port
ModemAnswer ==
    /\ modem_seen < Len(port_written)
    /\ modem_seen' = modem_seen + 1
    /\ LET cmd == Strip(port_written[modem_seen + 1])
       IN  \/ /\ modem_out' = modem_out \o NormalReply(cmd, downlink)
              /\ downlink' = IF IsReceiveCommand(cmd) /\ Len(downlink.chunks) > 0
                             THEN [downlink EXCEPT !.chunks = Tail(@),
                                                   !.sent = Append(@, Head(downlink.chunks))]
                             ELSE downlink
              /\ UNCHANGED faults
           \/ /\ faults < MaxFaults
              /\ faults' = faults + 1
              /\ \E reply \in FaultReplies(cmd, downlink) : modem_out' = modem_out \o reply
              /\ UNCHANGED downlink
    /\ UNCHANGED <<chanVars, appVars>>

\* The reader thread reads the next line the modem sent
ModemDeliver ==
    /\ Len(modem_out) > 0
    /\ ReceiveLine(Head(modem_out))
    /\ modem_out' = Tail(modem_out)
    /\ UNCHANGED <<appVars, modem_seen, faults, downlink>>

(***************************************************************************)
(* Downlink: receive_udp_message and the profiles' receive_udp, run by the *)
(* receive thread that handle_urc starts.  rx.value is what receive_udp    *)
(* returned: <<>> for None, or one (ip, port, payload) tuple.              *)
(***************************************************************************)
ExpectedNordicIp == "100.127.10.16"

SoracomPrefix == "100.127."

Delivery(ip, port, payload) == <<[ip |-> ip, port |-> port, payload |-> payload]>>

\* str.strip(chars) for a one-character set
RECURSIVE StripChar(_, _)
StripChar(s, ch) ==
    IF Len(s) > 0 /\ Char(s, 1) = ch THEN StripChar(Tail(s), ch)
    ELSE IF Len(s) > 0 /\ Char(s, Len(s)) = ch THEN StripChar(SubSeq(s, 1, Len(s) - 1), ch)
    ELSE s

\* A field of the header with the optional quotes of "?([^",]+)"? taken off
Unquoted(s) ==
    LET a == IF StartsWith(s, "\"") THEN Tail(s) ELSE s
    IN  IF Len(a) > 0 /\ Char(a, Len(a)) = "\"" THEN SubSeq(a, 1, Len(a) - 1) ELSE a

\* re.search(r'#XRECVFROM:\s*(\d+),\s*"?([^",]+)"?,\s*(\d+)', header): the groups, or
\* <<>> without a match
XRecvFromHeader(header) ==
    LET i == Find(header, "#XRECVFROM:")
        fields == Split(LStrip(SubSeq(header, i + Len("#XRECVFROM:"), Len(header))), ",")
    IN  IF i = 0 \/ Len(fields) < 3 THEN <<>>
        ELSE IF ~IsDigits(fields[1]) THEN <<>>
        ELSE IF Unquoted(LStrip(fields[2])) = "" \/ Contains(Unquoted(LStrip(fields[2])), "\"")
             THEN <<>>
        ELSE IF LeadingDigits(LStrip(fields[3])) = "" THEN <<>>
        ELSE <<fields[1], Unquoted(LStrip(fields[2])), LeadingDigits(LStrip(fields[3]))>>

\* NordicThingy91XProfile.receive_udp after send_command returned (success, response).
\* The response is one line, the collected lines joined with " | ".
NordicReceiveUdp(success, response) ==
    IF ~success \/ response = "" THEN <<>>
    ELSE IF ~Contains(response, "#XRECVFROM:") THEN <<>>
    ELSE LET piped == Contains(response, " | ")
             parts == Split(response, " | ")
             header_part == IF piped THEN Strip(parts[1]) ELSE response
             data_part == IF piped /\ Len(parts) > 1 THEN Strip(parts[2]) ELSE ""
             groups == XRecvFromHeader(header_part)
         IN  IF groups = <<>> THEN <<>>
             ELSE LET ip_addr == Strip(StripChar(StripChar(groups[2], "\""), "'"))
                  IN  IF ip_addr # ExpectedNordicIp THEN <<>>
                      ELSE Delivery(ip_addr, ToInt(groups[3]), Strip(data_part))

\* parse_socketdata: re.search of
\* %SOCKETDATA:\s*(\d+),(\d+),(\d+),"([0-9A-Fa-f]+)","([0-9.]+)",(\d+); <<>> without a match
IsQuoted(s) == Len(s) >= 3 /\ Char(s, 1) = "\"" /\ Char(s, Len(s)) = "\""

IsDottedDigits(s) == Len(s) > 0 /\ \A i \in 1..Len(s) : Contains(Digits \o ".", Char(s, i))

ParseSocketData(urc) ==
    LET i == Find(urc, "%SOCKETDATA:")
        fields == Split(LStrip(SubSeq(urc, i + Len("%SOCKETDATA:"), Len(urc))), ",")
    IN  IF i = 0 \/ Len(fields) < 6 THEN <<>>
        ELSE IF ~(IsDigits(fields[1]) /\ IsDigits(fields[2]) /\ IsDigits(fields[3])) THEN <<>>
        ELSE IF ~(IsQuoted(fields[4]) /\ IsHex(Unquoted(fields[4]))) THEN <<>>
        ELSE IF ~(IsQuoted(fields[5]) /\ IsDottedDigits(Unquoted(fields[5]))) THEN <<>>
        ELSE IF LeadingDigits(fields[6]) = "" THEN <<>>
        ELSE <<[socket_id |-> ToInt(fields[1]), rlength |-> ToInt(fields[2]),
                more |-> ToInt(fields[3]), rdata_hex |-> Unquoted(fields[4]),
                src_ip |-> Unquoted(fields[5]), src_port |-> ToInt(LeadingDigits(fields[6]))]>>

\* The socket the Murata profile reads: int(app.listen_socket_id), or 1
ReceiveSocketId == IF app.listen_socket_id \in {None, ""} THEN 1 ELSE ToInt(app.listen_socket_id)

ReceiveCommand ==
    IF IsMurata(app.device_type) /\ ~IsNordic(app.device_type)
    THEN "AT%SOCKETDATA=\"RECEIVE\"," \o ToStr(ReceiveSocketId) \o ",1500"
    ELSE "AT#XRECVFROM=" \o ToStr(UdpBufferSize)

\* combined_hex += parsed['rdata_hex']
MurataPayload_LastChunkOnly(combined_hex, rdata_hex) == rdata_hex

MurataPayload(combined_hex, rdata_hex) == combined_hex \o rdata_hex

\* MurataType1SCProfile.receive_udp, after the polling loop: bytes.fromhex and decode, the
\* hex text itself when fromhex raises

MurataReturn(combined_hex, src_ip, src_port) ==
    IF combined_hex = "" \/ src_ip = None THEN <<>>
    ELSE Delivery(src_ip, src_port,
                  IF HexDecodes(combined_hex) THEN HexDecode(combined_hex) ELSE combined_hex)

\* receive_udp_message up to the profile's first send_command
RxBegin ==
    /\ rx.status = "start"
    /\ IF ~(app.is_connected /\ app.udp_bound)
       THEN /\ rx' = NoReceive
            /\ UNCHANGED chanVars
       ELSE /\ SendCommandCall(ReceiveThread, ReceiveCommand, "5.0")
            /\ rx' = [rx EXCEPT !.status = "command"]
    /\ UNCHANGED <<app, command_input, chat, connects, gui, bringup, modemVars>>

\* The first send_command returned
RxReturn ==
    /\ rx.status = "command"
    /\ pc[ReceiveThread] = "returned"
    /\ TakeResult(ReceiveThread)
    /\ rx' = IF IsMurata(app.device_type) /\ ~IsNordic(app.device_type)
             THEN IF result[ReceiveThread].ok
                  THEN [rx EXCEPT !.status = "poll", !.ticks = 0]
                  ELSE [rx EXCEPT !.status = "done", !.value = <<>>]
             ELSE [rx EXCEPT !.status = "done",
                             !.value = NordicReceiveUdp(result[ReceiveThread].ok,
                                                        result[ReceiveThread].text)]
    /\ UNCHANGED <<app, command_input, chat, connects, gui, bringup, modemVars>>

\* The Murata polling loop finds a notification in the slot and takes it
RxPollHit ==
    /\ rx.status = "poll"
    /\ rx.ticks < WaitTimeoutTicks
    /\ app.last_socketdata_notification \notin {None, ""}
    /\ app' = [app EXCEPT !.last_socketdata_notification = None]
    /\ LET parsed == ParseSocketData(app.last_socketdata_notification)
       IN  IF parsed = <<>> \/ parsed[1].socket_id # ReceiveSocketId
           THEN /\ rx' = [rx EXCEPT !.status = "done",
                                    !.value = MurataReturn(rx.hex, rx.ip, rx.port)]
                /\ UNCHANGED chanVars
           ELSE IF ~StartsWith(parsed[1].src_ip, SoracomPrefix)
                THEN /\ rx' = [rx EXCEPT !.status = "done", !.value = <<>>]
                     /\ UNCHANGED chanVars
                ELSE IF parsed[1].more = 1
                     THEN /\ rx' = [rx EXCEPT !.status = "more", !.more = 1,
                                       !.hex = MurataPayload(rx.hex, parsed[1].rdata_hex),
                                       !.ip = parsed[1].src_ip, !.port = parsed[1].src_port]
                          /\ SendCommandCall(ReceiveThread, ReceiveCommand, "5.0")
                     ELSE /\ rx' = [rx EXCEPT
                                       !.status = "done", !.more = parsed[1].more,
                                       !.hex = MurataPayload(rx.hex, parsed[1].rdata_hex),
                                       !.ip = parsed[1].src_ip, !.port = parsed[1].src_port,
                                       !.value = MurataReturn(
                                                    MurataPayload(rx.hex, parsed[1].rdata_hex),
                                                    parsed[1].src_ip, parsed[1].src_port)]
                          /\ UNCHANGED chanVars
    /\ UNCHANGED <<command_input, chat, connects, gui, bringup, modemVars>>

\* The follow-up receive command returned; its result is not looked at.  A command that
\* ran into its own 5 s timeout has used up the 5 s of the polling loop.
RxMoreReturn ==
    /\ rx.status = "more"
    /\ pc[ReceiveThread] = "returned"
    /\ TakeResult(ReceiveThread)
    /\ rx' = [rx EXCEPT !.status = "poll",
                        !.ticks = IF StartsWith(result[ReceiveThread].text, "Timeout")
                                  THEN WaitTimeoutTicks ELSE @]
    /\ UNCHANGED <<app, command_input, chat, connects, gui, bringup, modemVars>>

\* The polling loop sleeps for one interval
RxPollTick ==
    /\ rx.status = "poll"
    /\ rx.ticks < WaitTimeoutTicks
    /\ app.last_socketdata_notification \in {None, ""}
    /\ rx' = [rx EXCEPT !.ticks = @ + 1]
    /\ UNCHANGED <<chanVars, app, command_input, chat, connects, gui, bringup, modemVars>>

\* The polling loop's condition fails
RxPollDeadline ==
    /\ rx.status = "poll"
    /\ rx.ticks >= WaitTimeoutTicks
    /\ rx' = [rx EXCEPT !.status = "done", !.value = MurataReturn(rx.hex, rx.ip, rx.port)]
    /\ UNCHANGED <<chanVars, app, command_input, chat, connects, gui, bringup, modemVars>>

\* receive_udp_message after receive_udp returned: display_chat_message, thread ends
RxDisplay ==
    /\ rx.status = "done"
    /\ chat' = IF rx.value # <<>> THEN Append(chat, "[RECV] " \o rx.value[1].payload) ELSE chat
    /\ rx' = NoReceive
    /\ UNCHANGED <<chanVars, app, command_input, connects, gui, bringup, modemVars>>

(***************************************************************************)
(* Uplink: send_message, send_to_harvest_data and the profiles'            *)
(* send_to_harvest, run by the GUI thread.                                 *)
(***************************************************************************)
\* char_len = len(hex_data) // 2
HarvestLength_HexCharacters(hex_data) == Len(hex_data)

HarvestLength(hex_data) == Len(hex_data) \div 2

\* The command the profile's send_to_harvest builds for data
HarvestCommand(device, data) ==
    IF IsMurata(device) /\ ~IsNordic(device)
    THEN "AT%SOCKETDATA=\"SEND\",1," \o ToStr(HarvestLength(Upper(HexEncode(data))))
            \o ",\"" \o Upper(HexEncode(data)) \o "\""
    ELSE "AT#XSENDTO=\"harvest.soracom.io\",8514,\"" \o data \o "\""

HarvestTimeout(device) == IF IsMurata(device) /\ ~IsNordic(device) THEN "5.0" ELSE "3.0"

\* str.split()[0] of a text that is not all whitespace
RECURSIVE UpToWhitespace(_)
UpToWhitespace(s) ==
    IF Len(s) = 0 \/ Char(s, 1) \in Whitespace THEN "" ELSE Char(s, 1) \o UpToWhitespace(Tail(s))

\* What the profile's send_to_harvest returns once send_command returned
HarvestSent(device, success, response) ==
    IF IsMurata(device) /\ ~IsNordic(device) THEN success
    ELSE IF ~success THEN FALSE
    ELSE IF response # "" /\ Contains(response, "#XSENDTO:")
         THEN LET size_str == Strip(Split(response, "#XSENDTO:")[2])
              IN  IF size_str # "" /\ IntParses(UpToWhitespace(size_str))
                  THEN ToInt(UpToWhitespace(size_str)) > 0
                  ELSE TRUE
    ELSE TRUE

\* The user edits the message input
TypeMessage(text) ==
    /\ gui = "idle"
    /\ command_input' = text
    /\ UNCHANGED <<chanVars, app, chat, connects, gui, bringup, rx, modemVars>>

\* send_message up to the profile's send_command
SendMessage ==
    /\ gui = "idle"
    /\ IF ~app.is_connected \/ Strip(command_input) = ""
       THEN UNCHANGED <<chanVars, gui>>
       ELSE /\ SendCommandCall(GuiThread, HarvestCommand(app.device_type, Strip(command_input)),
                               HarvestTimeout(app.device_type))
            /\ gui' = "sending"
    /\ UNCHANGED <<app, command_input, chat, connects, bringup, rx, modemVars>>

\* send_command returned: send_to_harvest_data shows the message when it was sent, and
\* send_message clears the input
SendReturn ==
    /\ gui = "sending"
    /\ pc[GuiThread] = "returned"
    /\ TakeResult(GuiThread)
    /\ chat' = IF HarvestSent(app.device_type, result[GuiThread].ok, result[GuiThread].text)
               THEN Append(chat, "[SEND] " \o Strip(command_input))
               ELSE chat
    /\ command_input' = ""
    /\ gui' = "idle"
    /\ UNCHANGED <<app, connects, bringup, rx, modemVars>>

(***************************************************************************)
(* _receive_loop: an exception raised by the read.                         *)
(***************************************************************************)
\* What the class SerialManager defines
SerialManagerMethods ==
    {"__init__", "list_ports", "connect", "disconnect", "send_command", "_receive_loop",
     "get_message"}

ReadErrors == {"SerialException", "Exception"}

\* Both handlers start with self.log_message(...): on a SerialManager that is an
\* AttributeError raised inside the handler, which leaves _receive_loop
HandlerRuns == "log_message" \in SerialManagerMethods

\* serial_port.in_waiting / serial_port.read raises `error` in the reader thread.
\* After a SerialException the port is gone: writes to it raise as well.
ReadFault(error) ==
    /\ reader = "running"
    /\ serial_is_connected /\ ~stop_event /\ port_open
    /\ port_open' = (error # "SerialException")
    /\ IF ~HandlerRuns
       THEN /\ reader' = "crashed"
            /\ UNCHANGED <<serial_is_connected, app>>
       ELSE IF error = "SerialException"
            THEN \* is_connected = False, the status label through root.after(0, ...), break
                 /\ reader' = "stopped"
                 /\ serial_is_connected' = FALSE
                 /\ app' = [app EXCEPT
                              !.status_label = "Status: Disconnected (Device Unplugged)"]
            ELSE \* logged; the loop goes on
                 UNCHANGED <<reader, buffer, serial_is_connected, app>>
    /\ UNCHANGED <<buffer, stop_event, command_lock, response_queue, event_queue, port_written, pc,
                   cur_cmd, responses, elapsed, result>>
    /\ UNCHANGED <<command_input, chat, connects, gui, bringup, rx, modemVars>>

(***************************************************************************)
(* _receive_loop: the data read from the port, split into lines.           *)
(***************************************************************************)
\* buffer.split(sep, 1): the text before the first sep and the text after it
SplitOnce(text, sep) ==
    <<SubSeq(text, 1, Find(text, sep) - 1), SubSeq(text, Find(text, sep) + Len(sep), Len(text))>>

\* "Extract complete lines": while the buffer holds a CR-LF it is cut at the first
\* CR-LF, otherwise at the first LF
RECURSIVE ExtractLines(_)
ExtractLines(text) ==
    IF Contains(text, "\r\n")
    THEN LET rest == ExtractLines(SplitOnce(text, "\r\n")[2])
         IN  [lines |-> <<SplitOnce(text, "\r\n")[1]>> \o rest.lines, buffer |-> rest.buffer]
    ELSE IF Contains(text, "\n")
         THEN LET rest == ExtractLines(SplitOnce(text, "\n")[2])
              IN  [lines |-> <<SplitOnce(text, "\n")[1]>> \o rest.lines, buffer |-> rest.buffer]
         ELSE [lines |-> <<>>, buffer |-> text]

\* if line.strip()
IsKept(line) == Strip(line) # ""

IsEventLine(line) == IsKept(line) /\ IsUrcLine(line)

IsResponseLine(line) == IsKept(line) /\ ~IsUrcLine(line)

\* The stripped lines
RECURSIVE Stripped(_)
Stripped(lines) ==
    IF Len(lines) = 0 THEN <<>> ELSE <<Strip(Head(lines))>> \o Stripped(Tail(lines))

\* _receive_loop reading `data` from the port: every complete line is queued
ReceiveData(data) ==
    /\ reader = "running"
    /\ serial_is_connected /\ ~stop_event /\ port_open
    /\ LET extracted == ExtractLines(buffer \o data)
       IN  /\ buffer' = extracted.buffer
           /\ event_queue' = event_queue \o Stripped(SelectSeq(extracted.lines, IsEventLine))
           /\ response_queue' =
                 response_queue \o Stripped(SelectSeq(extracted.lines, IsResponseLine))
    /\ UNCHANGED <<reader, serial_is_connected, port_open, stop_event, command_lock,
                   port_written, pc, cur_cmd, responses, elapsed, result>>

(***************************************************************************)
(* Connection and bring-up: the user connects and disconnects, the GUI     *)
(* thread shakes hands and polls the event queue, the bring-up threads run *)
(* their programs and the modem answers what is written to the port.       *)
(***************************************************************************)
BringupInit ==
    /\ ChanInit
    /\ calls = 0
    /\ lines_in = 0
    /\ SideInit
    /\ AppInit
    /\ ModemInit

SessionThreads == {GuiThread} \cup BringupThreads

BringupNext ==
    \/ \E opened \in BOOLEAN : connects < MaxConnects /\ Connect(opened) /\ UNCHANGED <<loadVars, sideVars>>
    \/ HandshakeCall /\ UNCHANGED <<loadVars, sideVars>>
    \/ HandshakeReturn /\ UNCHANGED <<loadVars, sideVars>>
    \/ Disconnect /\ UNCHANGED <<loadVars, sideVars>>
    \/ PollSerial /\ UNCHANGED <<loadVars, sideVars>>
    \/ ModemAnswer /\ UNCHANGED <<loadVars, sideVars>>
    \/ ModemDeliver /\ UNCHANGED <<loadVars, sideVars>>
    \/ \E b \in BringupThreads : BringupCall(b) /\ UNCHANGED <<loadVars, sideVars>>
    \/ \E b \in BringupThreads : BringupReturn(b) /\ UNCHANGED <<loadVars, sideVars>>
    \/ \E b \in BringupThreads : WaitHit(b) /\ UNCHANGED <<loadVars, sideVars>>
    \/ \E b \in BringupThreads : WaitTick(b) /\ UNCHANGED <<loadVars, sideVars>>
    \/ \E b \in BringupThreads : WaitDeadline(b) /\ UNCHANGED <<loadVars, sideVars>>
    \/ \E b \in BringupThreads : GnssGet(b) /\ UNCHANGED <<loadVars, sideVars>>
    \/ \E b \in BringupThreads : GnssEmpty(b) /\ UNCHANGED <<loadVars, sideVars>>
    \/ \E b \in BringupThreads : GnssDeadline(b) /\ UNCHANGED <<loadVars, sideVars>>
    \/ \E c \in SessionThreads : SendCommandWrite(c) /\ UNCHANGED <<loadVars, sideVars, appVars, modemVars>>
    \/ \E c \in SessionThreads : CollectGet(c) /\ UNCHANGED <<loadVars, sideVars, appVars, modemVars>>
    \/ \E c \in SessionThreads : CollectEmpty(c) /\ UNCHANGED <<loadVars, sideVars, appVars, modemVars>>
    \/ \E c \in SessionThreads : CollectDeadline(c) /\ UNCHANGED <<loadVars, sideVars, appVars, modemVars>>
    \/ \E c \in SessionThreads : Settle(c) /\ UNCHANGED <<loadVars, sideVars, appVars, modemVars>>
    \/ \E c \in SessionThreads : ResetWrite(c) /\ UNCHANGED <<loadVars, sideVars, appVars, modemVars>>
    \/ \E c \in SessionThreads : BootEvtGet(c) /\ UNCHANGED <<loadVars, sideVars, appVars, modemVars>>
    \/ \E c \in SessionThreads : BootEvtEmpty(c) /\ UNCHANGED <<loadVars, sideVars, appVars, modemVars>>
    \/ \E c \in SessionThreads : BootRespDrain(c) /\ UNCHANGED <<loadVars, sideVars, appVars, modemVars>>
    \/ \E c \in SessionThreads : BootDeadline(c) /\ UNCHANGED <<loadVars, sideVars, appVars, modemVars>>

BringupSpec == BringupInit /\ [][BringupNext]_vars

(***************************************************************************)
(* Reconnection of a Thingy:91 X.  The run starts where a first connection *)
(* has just been disconnected while its bring-up thread was between two    *)
(* steps or in the registration wait, possibly with a registration notice  *)
(* still unread in the event queue; the user connects once more.           *)
(***************************************************************************)
StalePositions == {6}

MaxStaleCalls == 1     \* commands of the first connection's bring-up thread that are followed

IsStale(b) == b # BringupThread(connects)

\* The lines the first connection wrote before its bring-up thread reached step ip
WrittenBefore(device, ip) ==
    <<"AT\r\n">> \o [i \in 1..(ip - 1) |-> Program(device)[i].text \o "\r\n"]

ReconnectInit ==
    /\ reader = "stopped"
    /\ buffer = ""
    /\ serial_is_connected = FALSE
    /\ port_open = FALSE
    /\ stop_event = TRUE
    /\ command_lock = NoThread
    /\ response_queue = <<>>
    /\ event_queue \in {<<>>, <<RegisteredNotice>>}
    /\ pc = [c \in Callers |-> "idle"]
    /\ cur_cmd = [c \in Callers |-> NoCommand]
    /\ responses = [c \in Callers |-> <<>>]
    /\ elapsed = [c \in Callers |-> 0]
    /\ result = [c \in Callers |-> NoResult]
    /\ calls = 0
    /\ lines_in = 0
    /\ SideInit
    /\ app = [device_type |-> "nordic_thingy91x", is_connected |-> FALSE,
              connection_state |-> "disconnected", network_registered |-> FALSE,
              udp_bound |-> FALSE, listen_socket_id |-> None, signal_rsrp |-> 0,
              last_ping_notification |-> None, last_socketdata_notification |-> None,
              last_socketcmd_notification |-> None,
              status_label |-> "Status: Disconnected",
              device_profile |-> "NordicThingy91XProfile", log_error |-> ""]
    /\ command_input = ""
    /\ chat = <<>>
    /\ connects = MaxConnects
    /\ gui = "idle"
    /\ \E ip \in StalePositions :
          /\ bringup = [b \in BringupThreads |->
                           IF b = BringupThread(MaxConnects)
                           THEN [NotStarted EXCEPT !.status = "running", !.ip = ip]
                           ELSE NotStarted]
          /\ port_written = WrittenBefore("nordic_thingy91x", ip)
          /\ modem_seen = ip
    /\ rx = NoReceive
    /\ modem_out = <<>>
    /\ faults = 0
    /\ downlink = NoDatagram

ReconnectNext ==
    \/ \E opened \in BOOLEAN :
          connects < MaxConnects + 1 /\ Connect(opened) /\ UNCHANGED <<loadVars, sideVars>>
    \/ HandshakeCall /\ UNCHANGED <<loadVars, sideVars>>
    \/ HandshakeReturn /\ UNCHANGED <<loadVars, sideVars>>
    \/ Disconnect /\ UNCHANGED <<loadVars, sideVars>>
    \/ PollSerial /\ UNCHANGED <<loadVars, sideVars>>
    \/ ModemAnswer /\ UNCHANGED <<loadVars, sideVars>>
    \/ ModemDeliver /\ UNCHANGED <<loadVars, sideVars>>
    \/ \E b \in BringupThreads :
          /\ IsStale(b) => calls < MaxStaleCalls
          /\ BringupCall(b)
          /\ calls' = IF IsStale(b) THEN calls + 1 ELSE calls
          /\ UNCHANGED <<lines_in, sideVars>>
    \/ \E b \in BringupThreads : BringupReturn(b) /\ UNCHANGED <<loadVars, sideVars>>
    \/ \E b \in BringupThreads : WaitHit(b) /\ UNCHANGED <<loadVars, sideVars>>
    \/ \E b \in BringupThreads : WaitTick(b) /\ UNCHANGED <<loadVars, sideVars>>
    \/ \E b \in BringupThreads : WaitDeadline(b) /\ UNCHANGED <<loadVars, sideVars>>
    \/ \E c \in SessionThreads : SendCommandWrite(c) /\ UNCHANGED <<loadVars, sideVars, appVars, modemVars>>
    \/ \E c \in SessionThreads : CollectGet(c) /\ UNCHANGED <<loadVars, sideVars, appVars, modemVars>>
    \/ \E c \in SessionThreads : CollectEmpty(c) /\ UNCHANGED <<loadVars, sideVars, appVars, modemVars>>
    \/ \E c \in SessionThreads : CollectDeadline(c) /\ UNCHANGED <<loadVars, sideVars, appVars, modemVars>>
    \/ \E c \in SessionThreads : Settle(c) /\ UNCHANGED <<loadVars, sideVars, appVars, modemVars>>

ReconnectSpec == ReconnectInit /\ [][ReconnectNext]_vars

(***************************************************************************)
(* The state a completed bring-up leaves behind, from which the runs about *)
(* notifications, downlink and uplink start.                               *)
(***************************************************************************)
ListenSocket == "2"

WritesCommand(step) == step.op \in {"cmd", "cmd_any", "cmd_listen", "cmd_activate", "boot"}

\* The lines a program writes when every step succeeds
RECURSIVE ProgramLines(_)
ProgramLines(program) ==
    IF Len(program) = 0 THEN <<>>
    ELSE (IF WritesCommand(Head(program))
          THEN <<Head(program).text
                   \o (IF Head(program).op = "cmd_activate" THEN ListenSocket ELSE "") \o "\r\n">>
          ELSE <<>>) \o ProgramLines(Tail(program))

ReadyWritten(device) ==
    <<IF IsMurata(device) /\ ~IsNordic(device) THEN "ATZ\r\n" ELSE "AT\r\n">>
        \o ProgramLines(Program(device))

ReadyApp(device) ==
    [device_type |-> device, is_connected |-> TRUE, connection_state |-> "connected",
     network_registered |-> TRUE, udp_bound |-> TRUE,
     listen_socket_id |-> IF device = "murata_type1sc_ntng" THEN ListenSocket ELSE None,
     signal_rsrp |-> 0,
     last_ping_notification |-> IF device = "murata_type1sc_ntng" THEN PingNotice ELSE None,
     last_socketdata_notification |-> None, last_socketcmd_notification |-> None,
     status_label |-> "Status: Connected",
     device_profile |-> Create(device).profile, log_error |-> ""]

ReadyInit(device) ==
    /\ reader = "running"
    /\ buffer = ""
    /\ serial_is_connected = TRUE
    /\ port_open = TRUE
    /\ stop_event = FALSE
    /\ command_lock = NoThread
    /\ response_queue = <<>>
    /\ event_queue = <<>>
    /\ port_written = ReadyWritten(device)
    /\ pc = [c \in Callers |-> "idle"]
    /\ cur_cmd = [c \in Callers |-> NoCommand]
    /\ responses = [c \in Callers |-> <<>>]
    /\ elapsed = [c \in Callers |-> 0]
    /\ result = [c \in Callers |-> NoResult]
    /\ calls = 0
    /\ lines_in = 0
    /\ SideInit
    /\ app = ReadyApp(device)
    /\ command_input = ""
    /\ chat = <<>>
    /\ connects = 1
    /\ gui = "idle"
    /\ bringup = [b \in BringupThreads |->
                     IF b = BringupThread(1)
                     THEN [status |-> "ready", ip |-> Len(Program(device)), ticks |-> 0,
                           sock |-> IF device = "murata_type1sc_ntng" THEN ListenSocket ELSE None]
                     ELSE NotStarted]
    /\ rx = NoReceive
    /\ modem_seen = Len(ReadyWritten(device))
    /\ faults = 0

(***************************************************************************)
(* Registration notifications: the modem sends +CEREG lines of its own     *)
(* accord, the reader thread queues them and poll_serial dispatches them.  *)
(***************************************************************************)
CeregStats == {0, 1, 2, 3, 4, 5, 90}

CeregShapes == {"stat", "level5", "query"}

\* +CEREG: <stat> / +CEREG: <stat>,"<tac>","<ci>",<AcT> / the query reply +CEREG: <n>,<stat>
CeregLine(stat, shape) ==
    IF shape = "stat" THEN "+CEREG: " \o ToStr(stat)
    ELSE IF shape = "level5" THEN "+CEREG: " \o ToStr(stat) \o ",\"76C1\",\"0140F813\",7"
    ELSE "+CEREG: 5," \o ToStr(stat)

CeregLines == {CeregLine(stat, shape) : stat \in CeregStats, shape \in CeregShapes}

\* The modem sends a line nobody asked for
ModemNotify(line) ==
    /\ lines_in < MaxLines
    /\ lines_in' = lines_in + 1
    /\ modem_out' = Append(modem_out, line)
    /\ UNCHANGED <<chanVars, appVars, sideVars, calls, modem_seen, faults, downlink>>

UrcInit ==
    /\ \E device \in DeviceTypes : ReadyInit(device)
    /\ modem_out = <<>>
    /\ downlink = NoDatagram

UrcNext ==
    \/ \E line \in CeregLines : ModemNotify(line)
    \/ ModemDeliver /\ UNCHANGED <<loadVars, sideVars>>
    \/ PollSerial /\ UNCHANGED <<loadVars, sideVars>>

UrcSpec == UrcInit /\ [][UrcNext]_vars

(***************************************************************************)
(* Downlink: one datagram waits in the modem, which has just announced it. *)
(***************************************************************************)
SourceIps == {"100.127.10.16", "100.127.10.1", "10.0.0.5"}

SourcePorts == {8514}

HexChunks == {"41", "42", "6a"}

TextPayloads == {"hello", "+1", "OK"}

\* Sequences of 1..n elements of S
RECURSIVE SeqsUpTo(_, _)
SeqsUpTo(S, n) ==
    IF n = 0 THEN {}
    ELSE {<<x>> : x \in S} \cup {Append(q, x) : q \in SeqsUpTo(S, n - 1), x \in S}

Datagrams(device) ==
    {[ip |-> ip, port |-> port, chunks |-> chunks, sent |-> <<>>] :
        ip \in SourceIps, port \in SourcePorts,
        chunks \in IF device = "murata_type1sc_ntng"
                   THEN SeqsUpTo(HexChunks, MaxChunks)
                   ELSE {<<text>> : text \in TextPayloads}}

DataReadyNotice(device) ==
    IF device = "murata_type1sc_ntng" THEN "%SOCKETEV:1," \o ListenSocket ELSE "+CSCON: 1"

DownlinkInit ==
    \E device \in DeviceTypes :
        /\ ReadyInit(device)
        /\ modem_out = <<DataReadyNotice(device)>>
        /\ downlink \in Datagrams(device)

DownlinkNext ==
    \/ ModemDeliver /\ UNCHANGED <<loadVars, sideVars>>
    \/ ModemAnswer /\ UNCHANGED <<loadVars, sideVars>>
    \/ PollSerial /\ UNCHANGED <<loadVars, sideVars>>
    \/ RxBegin /\ UNCHANGED <<loadVars, sideVars>>
    \/ RxReturn /\ UNCHANGED <<loadVars, sideVars>>
    \/ RxPollHit /\ UNCHANGED <<loadVars, sideVars>>
    \/ RxPollTick /\ UNCHANGED <<loadVars, sideVars>>
    \/ RxPollDeadline /\ UNCHANGED <<loadVars, sideVars>>
    \/ RxMoreReturn /\ UNCHANGED <<loadVars, sideVars>>
    \/ RxDisplay /\ UNCHANGED <<loadVars, sideVars>>
    \/ SendCommandWrite(ReceiveThread) /\ UNCHANGED <<loadVars, sideVars, appVars, modemVars>>
    \/ CollectGet(ReceiveThread) /\ UNCHANGED <<loadVars, sideVars, appVars, modemVars>>
    \/ CollectEmpty(ReceiveThread) /\ UNCHANGED <<loadVars, sideVars, appVars, modemVars>>
    \/ CollectDeadline(ReceiveThread) /\ UNCHANGED <<loadVars, sideVars, appVars, modemVars>>
    \/ Settle(ReceiveThread) /\ UNCHANGED <<loadVars, sideVars, appVars, modemVars>>

DownlinkSpec == DownlinkInit /\ [][DownlinkNext]_vars

(***************************************************************************)
(* Uplink: the user types messages and presses Send.                       *)
(***************************************************************************)
MessageCharacters == {"h", "i", "~", " "}

RECURSIVE TextsUpTo(_)
TextsUpTo(n) ==
    IF n = 0 THEN {""}
    ELSE TextsUpTo(n - 1) \cup {t \o ch : t \in TextsUpTo(n - 1), ch \in MessageCharacters}

UplinkInit ==
    /\ \E device \in DeviceTypes : ReadyInit(device)
    /\ modem_out = <<>>
    /\ downlink = NoDatagram

UplinkNext ==
    \/ \E text \in TextsUpTo(MaxPayloadLen) :
          calls < MaxCalls /\ TypeMessage(text) /\ calls' = calls + 1 /\ UNCHANGED <<lines_in, sideVars>>
    \/ SendMessage /\ UNCHANGED <<loadVars, sideVars>>
    \/ SendReturn /\ UNCHANGED <<loadVars, sideVars>>
    \/ ModemAnswer /\ UNCHANGED <<loadVars, sideVars>>
    \/ ModemDeliver /\ UNCHANGED <<loadVars, sideVars>>
    \/ SendCommandWrite(GuiThread) /\ UNCHANGED <<loadVars, sideVars, appVars, modemVars>>
    \/ CollectGet(GuiThread) /\ UNCHANGED <<loadVars, sideVars, appVars, modemVars>>
    \/ CollectEmpty(GuiThread) /\ UNCHANGED <<loadVars, sideVars, appVars, modemVars>>
    \/ CollectDeadline(GuiThread) /\ UNCHANGED <<loadVars, sideVars, appVars, modemVars>>
    \/ Settle(GuiThread) /\ UNCHANGED <<loadVars, sideVars, appVars, modemVars>>

UplinkSpec == UplinkInit /\ [][UplinkNext]_vars

(***************************************************************************)
(* A ready connection on which reads can fail: the modem sends lines, the  *)
(* reader thread delivers them or hits an exception, the GUI thread polls  *)
(* the event queue and the user may disconnect.                            *)
(***************************************************************************)
UnaskedLines ==
    {"OK", "ERROR", "+CEREG: 1", "%CESQ: 60,2,20,4", " +CEREG: 2 ", "\t%BOOTEV:0", "#XRECVFROM: 2",
     " ready", "", " \t"}

FaultInit ==
    /\ \E device \in DeviceTypes : ReadyInit(device)
    /\ modem_out = <<>>
    /\ downlink = NoDatagram

FaultNext ==
    \/ \E line \in UnaskedLines : ModemNotify(line)
    \/ \E error \in ReadErrors : ReadFault(error) /\ UNCHANGED <<loadVars, sideVars>>
    \/ ModemDeliver /\ UNCHANGED <<loadVars, sideVars>>
    \/ PollSerial /\ UNCHANGED <<loadVars, sideVars>>
    \/ Disconnect /\ UNCHANGED <<loadVars, sideVars>>

FaultSpec == FaultInit /\ [][FaultNext]_vars

(***************************************************************************)
(* The profile factory applied to identifiers: the supported names in      *)
(* three letter cases with blanks around them, and names it does not know. *)
(***************************************************************************)
Capitalized(s) == IF Len(s) = 0 THEN "" ELSE Upper(Char(s, 1)) \o Tail(s)

LetterCases(s) == {s, Upper(s), Capitalized(s)}

Paddings == {<<"", "">>, <<" ", "">>, <<"", "\t">>, <<" ", " \n">>}

Padded(names) == {p[1] \o s \o p[2] : s \in names, p \in Paddings}

NamesOf(device) == {device.id} \cup device.aliases

\* The identifiers that name the device: its id and aliases, in any of the letter
\* cases, with blanks around them
VariantsOf(device) == Padded(UNION {LetterCases(name) : name \in NamesOf(device)})

UnknownNames ==
    {"", " ", "nordic91", "thingy 91x", "nordic-thingy91x", "murata_type1sc_ntn", "type1",
     "type1sc_ntng", "nrf9160", "murata type1sc", "thingy91", "unknown"}

Identifiers == UNION {VariantsOf(device) : device \in SupportedDevices} \cup Padded(UnknownNames)

FactoryInit ==
    /\ ChanInit
    /\ calls = 0
    /\ lines_in = 0
    /\ SideInit
    /\ AppInit
    /\ ModemInit

FactoryNext ==
    \/ \E identifier \in Identifiers : UpdateDeviceProfile(identifier) /\ UNCHANGED <<loadVars, sideVars>>

FactorySpec == FactoryInit /\ [][FactoryNext]_vars

(***************************************************************************)
(* The reader on a ready connection, fed with the bytes of the port as     *)
(* the driver hands them over: whole lines, pieces of lines, CR-LF and     *)
(* bare LF terminators.                                                     *)
(***************************************************************************)
PortData ==
    {"OK\r\n", "OK\n", "+CEREG: 1\r\n", "%CESQ: 60\n", "\r\nERROR\r\n", "+CE", "REG: 2",
     "\n", "\r\n", "data"}

\* The modem sends data; the driver keeps it until the reader reads
ModemSends(data) ==
    /\ lines_in < MaxLines
    /\ lines_in' = lines_in + 1
    /\ modem_out' = Append(modem_out, data)
    /\ UNCHANGED <<chanVars, appVars, sideVars, calls, modem_seen, faults, downlink>>

\* The reader thread reads all the driver holds: serial_port.read(in_waiting)
ReaderReads ==
    /\ Len(modem_out) > 0
    /\ ReceiveData(Join("", modem_out))
    /\ modem_out' = <<>>
    /\ UNCHANGED <<appVars, modem_seen, faults, downlink>>

SplitInit ==
    /\ \E device \in DeviceTypes : ReadyInit(device)
    /\ modem_out = <<>>
    /\ downlink = NoDatagram

SplitNext ==
    \/ \E data \in PortData : ModemSends(data)
    \/ ReaderReads /\ UNCHANGED <<loadVars, sideVars>>

SplitSpec == SplitInit /\ [][SplitNext]_vars


(***************************************************************************)
(* Socket-event and signal-quality notifications after bring-up: the modem *)
(* sends them unasked, poll_serial dispatches them, and the receive thread *)
(* that a dispatch starts runs receive_udp_message (no datagram waits).    *)
(***************************************************************************)
NoticeSockets == {1, 2, 3}

\* %SOCKETEV:<session_id>,<socket_id>
SocketEvent(session_id, socket_id) ==
    "%SOCKETEV:" \o ToStr(session_id) \o "," \o ToStr(socket_id)

RawRsrps == {0, 44, 255}

\* %CESQ: <rsrp>,<rsrq>,<snr>,<rscp>
CesqLine(rsrp) == "%CESQ: " \o ToStr(rsrp) \o ",2,20,4"

UnparsableCesqLines == {"%CESQ: n/a,2,20,4", "%CESQ"}

NoticeLines ==
    {SocketEvent(1, socket_id) : socket_id \in NoticeSockets}
        \cup {CesqLine(rsrp) : rsrp \in RawRsrps} \cup UnparsableCesqLines

NoticeInit ==
    /\ \E device \in DeviceTypes : ReadyInit(device)
    /\ modem_out = <<>>
    /\ downlink = NoDatagram

NoticeNext ==
    \/ \E line \in NoticeLines : ModemNotify(line)
    \/ ModemDeliver /\ UNCHANGED <<loadVars, sideVars>>
    \/ ModemAnswer /\ UNCHANGED <<loadVars, sideVars>>
    \/ PollSerial /\ UNCHANGED <<loadVars, sideVars>>
    \/ RxBegin /\ UNCHANGED <<loadVars, sideVars>>
    \/ RxReturn /\ UNCHANGED <<loadVars, sideVars>>
    \/ RxPollTick /\ UNCHANGED <<loadVars, sideVars>>
    \/ RxPollDeadline /\ UNCHANGED <<loadVars, sideVars>>
    \/ RxDisplay /\ UNCHANGED <<loadVars, sideVars>>
    \/ SendCommandWrite(ReceiveThread) /\ UNCHANGED <<loadVars, sideVars, appVars, modemVars>>
    \/ CollectGet(ReceiveThread) /\ UNCHANGED <<loadVars, sideVars, appVars, modemVars>>
    \/ CollectEmpty(ReceiveThread) /\ UNCHANGED <<loadVars, sideVars, appVars, modemVars>>
    \/ CollectDeadline(ReceiveThread) /\ UNCHANGED <<loadVars, sideVars, appVars, modemVars>>
    \/ Settle(ReceiveThread) /\ UNCHANGED <<loadVars, sideVars, appVars, modemVars>>

NoticeSpec == NoticeInit /\ [][NoticeNext]_vars

(***************************************************************************)
(* Modem resets during the bring-up of a Type 1SC.  The run follows one    *)
(* connect through the two resets of MurataType1SCProfile's                *)
(* initialize_network, up to the command after the second reset; the user  *)
(* types a message and presses Send while the bring-up thread is in        *)
(* _send_and_wait_boot, so that the GUI thread's send_command competes     *)
(* with the boot wait for the command lock.                                *)
(***************************************************************************)
InBootWait(c) == pc[c] \in {"bootevt", "bootresp"}

ResetPending == \E b \in BringupThreads : pc[b] = "bootlock" \/ InBootWait(b)

ResetMessages == {"hi"}

ResetHorizon == 12     \* steps of the bring-up program that are followed

MaxResetSends == 1     \* messages the user sends while a reset is under way

ResetInit ==
    /\ BringupInit
    /\ app.device_type = "murata_type1sc_ntng"

ResetNext ==
    \/ \E opened \in BOOLEAN : connects < MaxConnects /\ Connect(opened) /\ UNCHANGED <<loadVars, sideVars>>
    \/ HandshakeCall /\ UNCHANGED <<loadVars, sideVars>>
    \/ HandshakeReturn /\ UNCHANGED <<loadVars, sideVars>>
    \/ Disconnect /\ UNCHANGED <<loadVars, sideVars>>
    \/ PollSerial /\ UNCHANGED <<loadVars, sideVars>>
    \/ ModemAnswer /\ UNCHANGED <<loadVars, sideVars>>
    \/ ModemDeliver /\ UNCHANGED <<loadVars, sideVars>>
    \/ \E text \in ResetMessages :
          /\ calls < MaxResetSends
          /\ ResetPending
          /\ command_input = ""
          /\ TypeMessage(text)
          /\ calls' = calls + 1
          /\ UNCHANGED <<lines_in, sideVars>>
    \/ ResetPending /\ command_input # "" /\ SendMessage /\ UNCHANGED <<loadVars, sideVars>>
    \/ SendReturn /\ UNCHANGED <<loadVars, sideVars>>
    \/ \E b \in BringupThreads :
          /\ bringup[b].status = "running"
          /\ bringup[b].ip <= ResetHorizon
          /\ BringupCall(b)
          /\ UNCHANGED <<loadVars, sideVars>>
    \/ \E b \in BringupThreads : BringupReturn(b) /\ UNCHANGED <<loadVars, sideVars>>
    \/ \E c \in SessionThreads : SendCommandWrite(c) /\ UNCHANGED <<loadVars, sideVars, appVars, modemVars>>
    \/ \E c \in SessionThreads : CollectGet(c) /\ UNCHANGED <<loadVars, sideVars, appVars, modemVars>>
    \/ \E c \in SessionThreads : CollectEmpty(c) /\ UNCHANGED <<loadVars, sideVars, appVars, modemVars>>
    \/ \E c \in SessionThreads : CollectDeadline(c) /\ UNCHANGED <<loadVars, sideVars, appVars, modemVars>>
    \/ \E c \in SessionThreads : Settle(c) /\ UNCHANGED <<loadVars, sideVars, appVars, modemVars>>
    \/ \E c \in SessionThreads : ResetWrite(c) /\ UNCHANGED <<loadVars, sideVars, appVars, modemVars>>
    \/ \E c \in SessionThreads : BootEvtGet(c) /\ UNCHANGED <<loadVars, sideVars, appVars, modemVars>>
    \/ \E c \in SessionThreads : BootEvtEmpty(c) /\ UNCHANGED <<loadVars, sideVars, appVars, modemVars>>
    \/ \E c \in SessionThreads : BootRespDrain(c) /\ UNCHANGED <<loadVars, sideVars, appVars, modemVars>>
    \/ \E c \in SessionThreads : BootDeadline(c) /\ UNCHANGED <<loadVars, sideVars, appVars, modemVars>>

ResetSpec == ResetInit /\ [][ResetNext]_vars

(***************************************************************************)
(* CommunicatorApp: the poll of Soracom Harvest Data.  Devices store       *)
(* messages at the service, the user connects, selects a SIM and           *)
(* disconnects, and the poll timer fires every poll_interval_ms.           *)
(***************************************************************************)
MaxTime == 3           \* the clock and the message timestamps run from 1 to MaxTime
MaxStored == 2         \* messages stored at Soracom Harvest Data

HarvestTexts == {"hi", "[\"LOCATION\", \"52.1\", \"4.3\"]"}

\* HarvestMessage(timestamp_ms, text)
HarvestMessage(timestamp_ms, text) == [timestamp_ms |-> timestamp_ms, text |-> text]

\* The cursor as a number; None counts as earlier than every timestamp
CursorValue(cursor) == IF cursor = <<>> THEN 0 ELSE cursor[1]

\* messages.sort(key=lambda m: m.timestamp_ms): the orders a stable sort by timestamp
\* can give the entries of the answer
SortedByTimestamp(messages) ==
    {q \in [1..Cardinality(messages) -> messages] :
        /\ \A i, j \in 1..Cardinality(messages) : q[i] = q[j] => i = j
        /\ \A i, j \in 1..Cardinality(messages) : i < j => q[i].timestamp_ms <= q[j].timestamp_ms}

\* The entries the service returns for params["from"] = since_ms + 1 (all without from)
StoredSince(cursor) ==
    {m \in harvest.stored : cursor = <<>> \/ m.timestamp_ms >= cursor[1] + 1}

\* A finish() that shows every fetched message, seen before or not
ShowMessage_NoSeenCheck(c, msg) ==
    [c EXCEPT !.seen_harvest = @ \cup {msg},
              !.last_harvest_ts = IF c.last_harvest_ts = <<>> \/ msg.timestamp_ms > c.last_harvest_ts[1]
                                  THEN <<msg.timestamp_ms>> ELSE @,
              !.chat = Append(@, msg)]

\* finish(): the body of `for msg in result`
ShowMessage(c, msg) ==
    IF msg \in c.seen_harvest
    THEN c
    ELSE [c EXCEPT !.seen_harvest = @ \cup {msg},
                   !.last_harvest_ts = IF c.last_harvest_ts = <<>> \/ msg.timestamp_ms > c.last_harvest_ts[1]
                                       THEN <<msg.timestamp_ms>> ELSE @,
                   !.chat = Append(@, msg)]

\* finish(): the loop over the fetched messages
RECURSIVE ShowMessages(_, _)
ShowMessages(c, messages) ==
    IF Len(messages) = 0 THEN c ELSE ShowMessages(ShowMessage(c, Head(messages)), Tail(messages))

\* connect(): finish() after authenticate returned
CommConnect(success) ==
    /\ ~communicator.connected
    /\ communicator' = IF success
                       THEN [communicator EXCEPT !.connected = TRUE,
                                                 !.last_harvest_ts = <<harvest.now>>]
                       ELSE [communicator EXCEPT !.connected = FALSE]
    /\ UNCHANGED harvest

\* _on_sim_select: the session status of the selected SIM
SimSelect(online) ==
    /\ communicator.connected
    /\ communicator' = [communicator EXCEPT !.sim_active = online]
    /\ UNCHANGED harvest

\* disconnect(), with _clear_sim_list
CommDisconnect ==
    /\ communicator.connected
    /\ communicator' = [communicator EXCEPT !.connected = FALSE, !.sim_active = FALSE]
    /\ UNCHANGED harvest

\* time.time() has moved on
ClockTick ==
    /\ harvest.now < MaxTime
    /\ harvest' = [harvest EXCEPT !.now = @ + 1]
    /\ UNCHANGED communicator

\* A device's message arrives at Soracom Harvest Data
HarvestStore(timestamp_ms, text) ==
    /\ Cardinality(harvest.stored) < MaxStored
    /\ HarvestMessage(timestamp_ms, text) \notin harvest.stored
    /\ harvest' = [harvest EXCEPT !.stored = @ \cup {HarvestMessage(timestamp_ms, text)}]
    /\ UNCHANGED communicator

\* _poll_harvest: the timer fires; either the poll is skipped and the timer set again,
\* or the worker thread is started
PollHarvest ==
    /\ communicator.timers > 0
    /\ IF ~communicator.connected \/ ~communicator.sim_active \/ communicator.polling
       THEN UNCHANGED <<communicator, harvest>>
       ELSE /\ communicator' = [communicator EXCEPT !.polling = TRUE, !.timers = @ - 1]
            /\ harvest' = [harvest EXCEPT
                              !.fetches = Append(@, [status |-> "started", success |-> FALSE,
                                                     result |-> <<>>])]

\* worker(): fetch_harvest_messages(sim_id, self.last_harvest_ts) returns the sorted
\* entries, or a failure (not authenticated, status other than 200, network error)
FetchAnswer(success) ==
    \E i \in 1..Len(harvest.fetches) :
        /\ harvest.fetches[i].status = "started"
        /\ \E messages \in SortedByTimestamp(StoredSince(communicator.last_harvest_ts)) :
              harvest' = [harvest EXCEPT
                            !.fetches[i] = [status |-> "answered", success |-> success,
                                            result |-> IF success THEN messages ELSE <<>>]]
        /\ UNCHANGED communicator

\* finish(), run by the Tk main thread: show the new messages, clear polling, set the timer
FetchFinish ==
    /\ Len(harvest.fetches) > 0
    /\ Head(harvest.fetches).status = "answered"
    /\ communicator' = [ShowMessages(communicator, Head(harvest.fetches).result)
                            EXCEPT !.polling = FALSE, !.timers = @ + 1]
    /\ harvest' = [harvest EXCEPT !.fetches = Tail(@)]

CloudInit ==
    /\ Init

CloudNext ==
    \/ \E success \in BOOLEAN :
          CommConnect(success)
            /\ UNCHANGED <<chanVars, loadVars, appVars, modemVars, previous_reader, rx_second, profile_result>>
    \/ \E online \in BOOLEAN :
          SimSelect(online)
            /\ UNCHANGED <<chanVars, loadVars, appVars, modemVars, previous_reader, rx_second, profile_result>>
    \/ CommDisconnect
          /\ UNCHANGED <<chanVars, loadVars, appVars, modemVars, previous_reader, rx_second, profile_result>>
    \/ ClockTick
          /\ UNCHANGED <<chanVars, loadVars, appVars, modemVars, previous_reader, rx_second, profile_result>>
    \/ \E timestamp_ms \in 1..MaxTime, text \in HarvestTexts :
          HarvestStore(timestamp_ms, text)
            /\ UNCHANGED <<chanVars, loadVars, appVars, modemVars, previous_reader, rx_second, profile_result>>
    \/ PollHarvest
          /\ UNCHANGED <<chanVars, loadVars, appVars, modemVars, previous_reader, rx_second, profile_result>>
    \/ \E success \in BOOLEAN :
          FetchAnswer(success)
            /\ UNCHANGED <<chanVars, loadVars, appVars, modemVars, previous_reader, rx_second, profile_result>>
    \/ FetchFinish
          /\ UNCHANGED <<chanVars, loadVars, appVars, modemVars, previous_reader, rx_second, profile_result>>

CloudSpec == CloudInit /\ [][CloudNext]_vars

(***************************************************************************)
(* Disconnect and connect on the bare transport, with the reader thread    *)
(* that disconnect leaves behind: disconnect sets stop_event and closes    *)
(* the port but does not join the thread, which is somewhere in its loop   *)
(* (most of the time in time.sleep(0.01)).                                 *)
(***************************************************************************)
\* SerialManager.disconnect; the thread in receive_thread is left to itself
ReaderDisconnect ==
    /\ serial_is_connected
    /\ SerialDisconnect
    /\ previous_reader' = IF reader = "running"
                          THEN [status |-> "looping", buffer |-> buffer, reads |-> 0]
                          ELSE previous_reader

\* SerialManager.connect: a new port, stop_event cleared, a new thread in receive_thread
ReaderConnect(opened) ==
    /\ ~serial_is_connected
    /\ SerialConnect(opened)
    /\ UNCHANGED previous_reader

\* The thread left behind evaluates `while not self.stop_event.is_set() and
\* self.is_connected` and finds it false
PreviousReaderExits ==
    /\ previous_reader.status = "looping"
    /\ stop_event \/ ~serial_is_connected
    /\ previous_reader' = [previous_reader EXCEPT !.status = "exited"]
    /\ UNCHANGED chanVars

\* The thread left behind, past its loop test, asks the closed port for in_waiting: the
\* exception handler's self.log_message raises AttributeError and the thread ends
PreviousReaderFails ==
    /\ previous_reader.status = "looping"
    /\ ~port_open
    /\ previous_reader' = [previous_reader EXCEPT
                              !.status = IF HandlerRuns THEN "exited" ELSE "crashed"]
    /\ UNCHANGED chanVars

\* The thread left behind finds its loop condition true again and reads what
\* self.serial_port, by now the port of the later connect, has in waiting
PreviousReaderReads ==
    /\ previous_reader.status = "looping"
    /\ serial_is_connected /\ ~stop_event /\ port_open
    /\ Len(modem_out) > 0
    /\ LET extracted == ExtractLines(previous_reader.buffer \o Join("", modem_out))
       IN  /\ previous_reader' = [previous_reader EXCEPT !.buffer = extracted.buffer,
                                                         !.reads = @ + 1]
           /\ event_queue' = event_queue \o Stripped(SelectSeq(extracted.lines, IsEventLine))
           /\ response_queue' =
                 response_queue \o Stripped(SelectSeq(extracted.lines, IsResponseLine))
    /\ modem_out' = <<>>
    /\ UNCHANGED <<reader, buffer, serial_is_connected, port_open, stop_event, command_lock,
                   port_written, pc, cur_cmd, responses, elapsed, result>>

ReaderInit ==
    /\ Init

ReaderNext ==
    \/ \E opened \in BOOLEAN :
          /\ calls < MaxCalls
          /\ calls' = calls + 1
          /\ ReaderConnect(opened)
          /\ UNCHANGED <<lines_in, appVars, modemVars, rx_second, profile_result, communicator, harvest>>
    \/ ReaderDisconnect
          /\ UNCHANGED <<loadVars, appVars, modemVars, rx_second, profile_result, communicator, harvest>>
    \/ \E data \in PortData : port_open /\ ModemSends(data)
    \/ ReaderReads /\ UNCHANGED <<loadVars, sideVars>>
    \/ PreviousReaderExits
          /\ UNCHANGED <<loadVars, appVars, modemVars, rx_second, profile_result, communicator, harvest>>
    \/ PreviousReaderFails
          /\ UNCHANGED <<loadVars, appVars, modemVars, rx_second, profile_result, communicator, harvest>>
    \/ PreviousReaderReads
          /\ UNCHANGED <<loadVars, appVars, modem_seen, faults, downlink, rx_second, profile_result,
                         communicator, harvest>>

ReaderSpec == ReaderInit /\ [][ReaderNext]_vars

(***************************************************************************)
(* The query operations of the device profiles:                            *)
(* parse_network_registration_urc and get_signal_quality.                  *)
(***************************************************************************)
\* re: -?\d+ at the start of s; "" without a match
LeadingInt(s) ==
    IF StartsWith(s, "-")
    THEN IF LeadingDigits(Tail(s)) = "" THEN "" ELSE "-" \o LeadingDigits(Tail(s))
    ELSE LeadingDigits(s)

\* s is -?\d+ and nothing else
IsSignedInt(s) == s # "" /\ LeadingInt(s) = s

\* str(n) of an integer
SignedStr(n) == IF n < 0 THEN "-" \o ToStr(0 - n) ELSE ToStr(n)

\* The dict both parsers return
RegistrationStatus(stat) == <<[urc_type |-> "cereg", stat |-> stat, registered |-> stat \in {1, 5}]>>

\* NordicThingy91XProfile.parse_network_registration_urc; <<>> is None
NordicParseRegistration(urc) ==
    IF ~StartsWith(urc, "+CEREG:")
    THEN <<>>
    ELSE LET parts == Split(Strip(Join("", Split(urc, "+CEREG:"))), ",")
         IN  IF Len(parts) >= 2 /\ IntParses(parts[2])
             THEN RegistrationStatus(ToInt(parts[2]))
             ELSE <<>>

\* MurataType1SCProfile.parse_network_registration_urc: re.search(r'CEREG:\s*(\d+)', urc)
MurataParseRegistration(urc) ==
    IF ~Contains(urc, "CEREG:")
    THEN <<>>
    ELSE LET rest == LStrip(SubSeq(urc, Find(urc, "CEREG:") + Len("CEREG:"), Len(urc)))
         IN  IF LeadingDigits(rest) = ""
             THEN <<>>
             ELSE RegistrationStatus(ToInt(LeadingDigits(rest)))

\* device_profile.parse_network_registration_urc(urc)
ParseRegistration(device, urc) ==
    IF device = "murata_type1sc_ntng" THEN MurataParseRegistration(urc)
    ELSE NordicParseRegistration(urc)

\* The command get_signal_quality sends, and its timeout
SignalQuery(device) ==
    IF device = "murata_type1sc_ntng"
    THEN [text |-> "AT%MEAS=\"8\"", timeout |-> "5.0"]
    ELSE [text |-> "AT%CESQ", timeout |-> "3.0"]

\* NordicThingy91XProfile.get_signal_quality after send_command:
\* re.search(r'%CESQ:\s*(-?\d+),\s*(-?\d+),\s*(-?\d+)', response)
NordicSignalQuality(success, response) ==
    LET i == Find(response, "%CESQ:")
        fields == Split(SubSeq(response, i + Len("%CESQ:"), Len(response)), ",")
    IN  IF ~success \/ response = "" \/ i = 0 \/ Len(fields) < 3 THEN <<>>
        ELSE IF /\ IsSignedInt(LStrip(fields[1]))
                /\ IsSignedInt(LStrip(fields[2]))
                /\ LeadingInt(LStrip(fields[3])) # ""
             THEN <<[rsrp |-> ToInt(fields[1]), rsrq |-> ToInt(fields[2]),
                     sinr |-> ToInt(LeadingInt(LStrip(fields[3]))), rssi |-> 0]>>
             ELSE <<>>

\* One `NAME\s*=\s*(-?\d+)` of the Murata pattern in a comma-separated field: the number
\* as text, "" without a match; the last field may go on after the number
MeasValue(field, name, last) ==
    LET after == LStrip(SubSeq(LStrip(field), Len(name) + 1, Len(LStrip(field))))
        number == LStrip(SubSeq(after, 2, Len(after)))
    IN  IF ~StartsWith(LStrip(field), name) \/ ~StartsWith(after, "=") THEN ""
        ELSE IF last THEN LeadingInt(number)
        ELSE IF IsSignedInt(number) THEN number ELSE ""

\* MurataType1SCProfile.get_signal_quality after send_command: re.search of
\* RSRP\s*=\s*(-?\d+),\s*RSRQ\s*=\s*(-?\d+),\s*SINR\s*=\s*(-?\d+),\s*RSSI\s*=\s*(-?\d+)
MurataSignalQuality(success, response) ==
    LET i == Find(response, "RSRP")
        fields == Split(SubSeq(response, i, Len(response)), ",")
    IN  IF ~success \/ response = "" \/ i = 0 \/ Len(fields) < 4 THEN <<>>
        ELSE IF /\ MeasValue(fields[1], "RSRP", FALSE) # ""
                /\ MeasValue(fields[2], "RSRQ", FALSE) # ""
                /\ MeasValue(fields[3], "SINR", FALSE) # ""
                /\ MeasValue(fields[4], "RSSI", TRUE) # ""
             THEN <<[rsrp |-> ToInt(MeasValue(fields[1], "RSRP", FALSE)),
                     rsrq |-> ToInt(MeasValue(fields[2], "RSRQ", FALSE)),
                     sinr |-> ToInt(MeasValue(fields[3], "SINR", FALSE)),
                     rssi |-> ToInt(MeasValue(fields[4], "RSSI", TRUE))]>>
             ELSE <<>>

SignalQuality(device, success, response) ==
    IF device = "murata_type1sc_ntng" THEN MurataSignalQuality(success, response)
    ELSE NordicSignalQuality(success, response)

\* parse_network_registration_urc is applied to the line that poll_serial will hand to
\* handle_urc next
ParseNotice ==
    /\ profile_result.op = "none"
    /\ Len(event_queue) > 0
    /\ profile_result' = [profile_result EXCEPT
                             !.op = "parse",
                             !.line = Head(event_queue),
                             !.status = "done",
                             !.value = ParseRegistration(app.device_type, Head(event_queue))]
    /\ UNCHANGED <<previous_reader, rx_second, communicator, harvest>>

\* get_signal_quality up to its send_command
QueryCall ==
    /\ profile_result.op = "none"
    /\ SendCommandCall(GuiThread, SignalQuery(app.device_type).text,
                       SignalQuery(app.device_type).timeout)
    /\ profile_result' = [profile_result EXCEPT !.op = "signal", !.status = "command"]
    /\ UNCHANGED <<previous_reader, rx_second, communicator, harvest>>

\* get_signal_quality after send_command returned
QueryReturn ==
    /\ profile_result.status = "command"
    /\ pc[GuiThread] = "returned"
    /\ TakeResult(GuiThread)
    /\ profile_result' = [profile_result EXCEPT
                             !.status = "done",
                             !.response = result[GuiThread],
                             !.value = SignalQuality(app.device_type, result[GuiThread].ok,
                                                     result[GuiThread].text)]
    /\ UNCHANGED <<previous_reader, rx_second, communicator, harvest>>

(***************************************************************************)
(* Registration lines given to the profile's parser and, through the       *)
(* reader and poll_serial, to the router.                                  *)
(***************************************************************************)
OtherLines == {PingNotice, "%CESQ: 44,20,25", "%SOCKETCMD:1", "+CGEV: ME PDN ACT 0", "+CSCON: 0"}

ParserInit ==
    \E device \in DeviceTypes, line \in CeregLines \cup OtherLines :
        /\ ReadyInit(device)
        /\ modem_out = <<line>>
        /\ downlink = NoDatagram

ParserNext ==
    \/ ParseNotice /\ UNCHANGED <<chanVars, loadVars, appVars, modemVars>>
    \/ ModemDeliver /\ UNCHANGED <<loadVars, sideVars>>
    \/ PollSerial /\ UNCHANGED <<loadVars, sideVars>>

ParserSpec == ParserInit /\ [][ParserNext]_vars

(***************************************************************************)
(* get_signal_quality on a ready connection: the modem answers the query   *)
(* with its measurement line and OK.                                       *)
(***************************************************************************)
MeasuredRsrps == {-97, 0, 44}

\* %CESQ: <rsrp>,<rsrq>,<sinr> / RSRP = <rsrp>, RSRQ = <rsrq>, SINR = <sinr>, RSSI = <rssi>
MeasurementLine(device, rsrp) ==
    IF device = "murata_type1sc_ntng"
    THEN "RSRP = " \o SignedStr(rsrp) \o ", RSRQ = -11, SINR = 5, RSSI = -65"
    ELSE "%CESQ: " \o SignedStr(rsrp) \o ",20,25"

\* The modem acts on the query command: the measurement line, then OK
ModemMeasure(rsrp) ==
    /\ modem_seen < Len(port_written)
    /\ Strip(port_written[modem_seen + 1]) = SignalQuery(app.device_type).text
    /\ modem_seen' = modem_seen + 1
    /\ modem_out' = modem_out \o <<MeasurementLine(app.device_type, rsrp), "OK">>
    /\ profile_result' = [profile_result EXCEPT !.line = MeasurementLine(app.device_type, rsrp)]
    /\ UNCHANGED <<chanVars, loadVars, appVars, faults, downlink, previous_reader, rx_second,
                   communicator, harvest>>

QueryInit ==
    \E device \in DeviceTypes :
        /\ ReadyInit(device)
        /\ modem_out = <<>>
        /\ downlink = NoDatagram

QueryNext ==
    \/ QueryCall /\ UNCHANGED <<loadVars, appVars, modemVars>>
    \/ QueryReturn /\ UNCHANGED <<loadVars, appVars, modemVars>>
    \/ \E rsrp \in MeasuredRsrps : ModemMeasure(rsrp)
    \/ ModemDeliver /\ UNCHANGED <<loadVars, sideVars>>
    \/ PollSerial /\ UNCHANGED <<loadVars, sideVars>>
    \/ SendCommandWrite(GuiThread) /\ UNCHANGED <<loadVars, sideVars, appVars, modemVars>>
    \/ CollectGet(GuiThread) /\ UNCHANGED <<loadVars, sideVars, appVars, modemVars>>
    \/ CollectEmpty(GuiThread) /\ UNCHANGED <<loadVars, sideVars, appVars, modemVars>>
    \/ CollectDeadline(GuiThread) /\ UNCHANGED <<loadVars, sideVars, appVars, modemVars>>
    \/ Settle(GuiThread) /\ UNCHANGED <<loadVars, sideVars, appVars, modemVars>>

QuerySpec == QueryInit /\ [][QueryNext]_vars
(***************************************************************************)
(* Two receive threads.  handle_urc starts a thread for every data-ready   *)
(* notice, whether or not an earlier receive_udp_message is still running; *)
(* both run the same profile code against the one notification slot.       *)
(***************************************************************************)
\* poll_serial dispatching a data-ready notice while the first receive thread runs:
\* handle_urc starts another thread
PollSerialSecond ==
    /\ gui \in {"idle", "failed"}
    /\ app.is_connected
    /\ Len(event_queue) > 0
    /\ SpawnsReceive(Head(event_queue), app.listen_socket_id)
    /\ rx.status # "none"
    /\ rx_second.status = "none"
    /\ event_queue' = Tail(event_queue)
    /\ rx_second' = [NoReceive EXCEPT !.status = "start"]
    /\ UNCHANGED <<reader, buffer, serial_is_connected, port_open, stop_event, command_lock, response_queue,
                   port_written, pc, cur_cmd, responses, elapsed, result>>
    /\ UNCHANGED <<appVars, modemVars>>

\* receive_udp_message of the second thread up to the profile's first send_command
SecondBegin ==
    /\ rx_second.status = "start"
    /\ IF ~(app.is_connected /\ app.udp_bound)
       THEN /\ rx_second' = NoReceive
            /\ UNCHANGED chanVars
       ELSE /\ SendCommandCall(SecondReceiveThread, ReceiveCommand, "5.0")
            /\ rx_second' = [rx_second EXCEPT !.status = "command"]
    /\ UNCHANGED <<app, command_input, chat, connects, gui, bringup, rx, modemVars>>

\* The first send_command returned
SecondReturn ==
    /\ rx_second.status = "command"
    /\ pc[SecondReceiveThread] = "returned"
    /\ TakeResult(SecondReceiveThread)
    /\ rx_second' = IF IsMurata(app.device_type) /\ ~IsNordic(app.device_type)
             THEN IF result[SecondReceiveThread].ok
                  THEN [rx_second EXCEPT !.status = "poll", !.ticks = 0]
                  ELSE [rx_second EXCEPT !.status = "done", !.value = <<>>]
             ELSE [rx_second EXCEPT !.status = "done",
                             !.value = NordicReceiveUdp(result[SecondReceiveThread].ok,
                                                        result[SecondReceiveThread].text)]
    /\ UNCHANGED <<app, command_input, chat, connects, gui, bringup, rx, modemVars>>

\* The Murata polling loop finds a notification in the slot and takes it
SecondPollHit ==
    /\ rx_second.status = "poll"
    /\ rx_second.ticks < WaitTimeoutTicks
    /\ app.last_socketdata_notification \notin {None, ""}
    /\ app' = [app EXCEPT !.last_socketdata_notification = None]
    /\ LET parsed == ParseSocketData(app.last_socketdata_notification)
       IN  IF parsed = <<>> \/ parsed[1].socket_id # ReceiveSocketId
           THEN /\ rx_second' = [rx_second EXCEPT !.status = "done",
                                    !.value = MurataReturn(rx_second.hex, rx_second.ip, rx_second.port)]
                /\ UNCHANGED chanVars
           ELSE IF ~StartsWith(parsed[1].src_ip, SoracomPrefix)
                THEN /\ rx_second' = [rx_second EXCEPT !.status = "done", !.value = <<>>]
                     /\ UNCHANGED chanVars
                ELSE IF parsed[1].more = 1
                     THEN /\ rx_second' = [rx_second EXCEPT !.status = "more", !.more = 1,
                                       !.hex = MurataPayload(rx_second.hex, parsed[1].rdata_hex),
                                       !.ip = parsed[1].src_ip, !.port = parsed[1].src_port]
                          /\ SendCommandCall(SecondReceiveThread, ReceiveCommand, "5.0")
                     ELSE /\ rx_second' = [rx_second EXCEPT
                                       !.status = "done", !.more = parsed[1].more,
                                       !.hex = MurataPayload(rx_second.hex, parsed[1].rdata_hex),
                                       !.ip = parsed[1].src_ip, !.port = parsed[1].src_port,
                                       !.value = MurataReturn(
                                                    MurataPayload(rx_second.hex, parsed[1].rdata_hex),
                                                    parsed[1].src_ip, parsed[1].src_port)]
                          /\ UNCHANGED chanVars
    /\ UNCHANGED <<command_input, chat, connects, gui, bringup, rx, modemVars>>

\* The follow-up receive command returned; its result is not looked at.  A command that
\* ran into its own 5 s timeout has used up the 5 s of the polling loop.
SecondMoreReturn ==
    /\ rx_second.status = "more"
    /\ pc[SecondReceiveThread] = "returned"
    /\ TakeResult(SecondReceiveThread)
    /\ rx_second' = [rx_second EXCEPT !.status = "poll",
                        !.ticks = IF StartsWith(result[SecondReceiveThread].text, "Timeout")
                                  THEN WaitTimeoutTicks ELSE @]
    /\ UNCHANGED <<app, command_input, chat, connects, gui, bringup, rx, modemVars>>

\* The polling loop sleeps for one interval
SecondPollTick ==
    /\ rx_second.status = "poll"
    /\ rx_second.ticks < WaitTimeoutTicks
    /\ app.last_socketdata_notification \in {None, ""}
    /\ rx_second' = [rx_second EXCEPT !.ticks = @ + 1]
    /\ UNCHANGED <<chanVars, app, command_input, chat, connects, gui, bringup, rx, modemVars>>

\* The polling loop's condition fails
SecondPollDeadline ==
    /\ rx_second.status = "poll"
    /\ rx_second.ticks >= WaitTimeoutTicks
    /\ rx_second' = [rx_second EXCEPT !.status = "done", !.value = MurataReturn(rx_second.hex, rx_second.ip, rx_second.port)]
    /\ UNCHANGED <<chanVars, app, command_input, chat, connects, gui, bringup, rx, modemVars>>

\* receive_udp_message after receive_udp returned: display_chat_message, thread ends
SecondDisplay ==
    /\ rx_second.status = "done"
    /\ chat' = IF rx_second.value # <<>> THEN Append(chat, "[RECV] " \o rx_second.value[1].payload) ELSE chat
    /\ rx_second' = NoReceive
    /\ UNCHANGED <<chanVars, app, command_input, connects, gui, bringup, rx, modemVars>>

\* A multi-chunk datagram is waiting and the modem has announced it twice
ConcurrentInit ==
    /\ ReadyInit("murata_type1sc_ntng")
    /\ modem_out = <<DataReadyNotice("murata_type1sc_ntng"), DataReadyNotice("murata_type1sc_ntng")>>
    /\ downlink \in {d \in Datagrams("murata_type1sc_ntng") :
                        Len(d.chunks) = 2 /\ StartsWith(d.ip, SoracomPrefix)}

OtherSide == <<previous_reader, profile_result, communicator, harvest>>

ConcurrentNext ==
    \/ ModemDeliver /\ UNCHANGED <<loadVars, sideVars>>
    \/ ModemAnswer /\ UNCHANGED <<loadVars, sideVars>>
    \/ PollSerial /\ UNCHANGED <<loadVars, sideVars>>
    \/ PollSerialSecond /\ UNCHANGED <<loadVars, OtherSide>>
    \/ RxBegin /\ UNCHANGED <<loadVars, sideVars>>
    \/ RxReturn /\ UNCHANGED <<loadVars, sideVars>>
    \/ RxPollHit /\ UNCHANGED <<loadVars, sideVars>>
    \/ RxPollTick /\ UNCHANGED <<loadVars, sideVars>>
    \/ RxPollDeadline /\ UNCHANGED <<loadVars, sideVars>>
    \/ RxMoreReturn /\ UNCHANGED <<loadVars, sideVars>>
    \/ RxDisplay /\ UNCHANGED <<loadVars, sideVars>>
    \/ SecondBegin /\ UNCHANGED <<loadVars, OtherSide>>
    \/ SecondReturn /\ UNCHANGED <<loadVars, OtherSide>>
    \/ SecondPollHit /\ UNCHANGED <<loadVars, OtherSide>>
    \/ SecondPollTick /\ UNCHANGED <<loadVars, OtherSide>>
    \/ SecondPollDeadline /\ UNCHANGED <<loadVars, OtherSide>>
    \/ SecondMoreReturn /\ UNCHANGED <<loadVars, OtherSide>>
    \/ SecondDisplay /\ UNCHANGED <<loadVars, OtherSide>>
    \/ \E c \in {ReceiveThread, SecondReceiveThread} :
          \/ SendCommandWrite(c) /\ UNCHANGED <<loadVars, sideVars, appVars, modemVars>>
          \/ CollectGet(c) /\ UNCHANGED <<loadVars, sideVars, appVars, modemVars>>
          \/ CollectEmpty(c) /\ UNCHANGED <<loadVars, sideVars, appVars, modemVars>>
          \/ CollectDeadline(c) /\ UNCHANGED <<loadVars, sideVars, appVars, modemVars>>
          \/ Settle(c) /\ UNCHANGED <<loadVars, sideVars, appVars, modemVars>>

ConcurrentSpec == ConcurrentInit /\ [][ConcurrentNext]_vars

(***************************************************************************)
(* C1..C3: the command channel.                                            *)
(***************************************************************************)
\* A caller's command is in flight from its write to its result code or timeout
InFlight(c) == pc[c] \in {"collect", "bootevt", "bootresp"}

\* C1: at most one command is in flight at any instant: no caller writes a command
\* (send_command, or the raw reset write of the boot wait and of the handshake)
\* between another caller's write and the end of that caller's wait.
C1_OneCommandInFlight ==
    /\ \A c1, c2 \in Callers : (InFlight(c1) /\ InFlight(c2)) => c1 = c2
    /\ \A c \in Callers : InFlight(c) => command_lock = c

\* C1's case: a raw reset write is in flight while another caller's send_command
\* waits for the lock.
C1_Witness ==
    \E c1, c2 \in Callers :
        /\ pc[c1] = "bootevt"
        /\ command_lock = c1
        /\ pc[c2] = "lock"

\* C2: a send_command whose response queue stayed empty until the deadline returns
\* (False, "Timeout: ...") and leaves the command lock free; and every call of
\* send_command returns (it does not hang and lets no exception escape).
C2_TimeoutReturnsFailure ==
    /\ [][\A c \in Callers :
            (pc[c] = "collect" /\ Len(responses[c]) = 0 /\ elapsed[c] >= CmdTimeoutTicks
                /\ pc'[c] # pc[c])
            => /\ pc'[c] = "returned"
               /\ result'[c] = [ok |-> FALSE, text |-> "Timeout: No response after 3.0s"]
               /\ command_lock' = NoThread]_vars
    /\ \A c \in Callers : (pc[c] \in {"lock", "collect", "settle"}) ~> (pc[c] = "returned")

\* C2's case: a send_command has returned the timeout failure while the port is
\* still open, and the lock is free.
C2_Witness ==
    \E c \in Callers :
        /\ pc[c] = "returned"
        /\ result[c] = [ok |-> FALSE, text |-> "Timeout: No response after 3.0s"]
        /\ port_open
        /\ command_lock = NoThread

\* The last line of a text returned by send_command
LastCollected(text) == LET parts == Split(text, " | ") IN parts[Len(parts)]

\* C3: when the modem answers with an ERROR result code, send_command returns
\* ok = False with the modem's lines as its text, distinct from the timeout text.
C3_ErrorReturnsFailure ==
    \A c \in Callers :
        (pc[c] = "returned" /\ StartsWith(LastCollected(result[c].text), "ERROR"))
        => (~result[c].ok /\ Len(result[c].text) > 0 /\ ~StartsWith(result[c].text, "Timeout"))

(***************************************************************************)
(* C4..C6: the bring-up sequence.                                          *)
(***************************************************************************)
\* The PDP context command of bring-up thread b has returned, and the modem's answer to
\* it was the ERROR result code
PdpRejected(b) ==
    /\ bringup[b].status = "running"
    /\ CurrentStep(b).text = PdpCommand
    /\ pc[b] = "returned"
    /\ StartsWith(LastCollected(result[b].text), "ERROR")

\* C4: when PDP activation fails (here: the modem rejects the PDP context command), the
\* bring-up halts in the PDP phase: its next step is the failure return, so that no
\* socket-open or port-bind command is written afterwards in that bring-up.
C4_PdpFailureHalts ==
    [][\A b \in BringupThreads :
          (PdpRejected(b) /\ bringup'[b] # bringup[b]) => bringup'[b].status = "failed"]_vars

\* The current connect has not got past its handshake
HandshakeNotPassed == gui \in {"handshake", "handshaking", "failed"}

\* C5: while the current connect's handshake has not succeeded (it is pending, or it
\* has failed), nothing but the handshake command has been written to the port opened
\* by this connect, and no bring-up thread has been started for this connect.
C5_HandshakeGatesBringup ==
    HandshakeNotPassed =>
        /\ Len(port_written) <= 1
        /\ bringup[BringupThread(connects)].status = "none"

\* Bring-up thread b is inside one of the polling waits (registration, ping,
\* allocation notice, GNSS fix)
InPollingWait(b) ==
    /\ bringup[b].status = "running"
    /\ CurrentStep(b).op \in {"wait", "gnss"}

\* C6: once the application is disconnected, the next step of a pending wait is its
\* return with failure: a polling wait does not sleep or succeed any more, and a boot
\* wait does not poll the event queue again.
C6_DisconnectEndsWaits ==
    [][\A b \in BringupThreads :
          (~app.is_connected /\ ~serial_is_connected) =>
              /\ (InPollingWait(b) /\ bringup'[b] # bringup[b])
                    => bringup'[b].status = "failed"
              /\ (pc[b] = "bootevt" /\ pc'[b] # pc[b])
                    => (pc'[b] = "returned" /\ ~result'[b].ok)]_vars

(***************************************************************************)
(* C7: registration notifications.                                         *)
(***************************************************************************)
\* poll_serial takes the event at the head of the event queue and dispatches it
Dispatches(message) ==
    /\ Len(event_queue) > 0
    /\ Head(event_queue) = message
    /\ event_queue' = Tail(event_queue)

\* C7: dispatching a registration notification with stat 1 or 5 sets network_registered,
\* with stat 0, 2, 3, 4 or 90 clears it, and dispatching a two-field line without
\* quotes (the shape of the reply to AT+CEREG?) leaves it as it was.
C7_RegistrationStatus ==
    [][\A stat \in CeregStats :
          /\ \A shape \in {"stat", "level5"} :
                Dispatches(CeregLine(stat, shape))
                    => app'.network_registered = (stat \in {1, 5})
          /\ Dispatches(CeregLine(stat, "query"))
                => app'.network_registered = app.network_registered]_vars

\* C7's case: every line the modem sent has been dispatched, and the flag that was set
\* when the run began is now cleared.
C7_Witness ==
    /\ lines_in = MaxLines
    /\ modem_out = <<>>
    /\ event_queue = <<>>
    /\ ~app.network_registered

(***************************************************************************)
(* C8, C9: downlink.                                                       *)
(***************************************************************************)
\* The receive commands written since the bring-up completed
RECURSIVE CountReceives(_)
CountReceives(lines) ==
    IF Len(lines) = 0 THEN 0
    ELSE (IF IsReceiveCommand(Strip(Head(lines))) THEN 1 ELSE 0) + CountReceives(Tail(lines))

ReceivesWritten ==
    CountReceives(SubSeq(port_written, Len(ReadyWritten(app.device_type)) + 1,
                         Len(port_written)))

\* C8: when the Murata receive_udp returns a message after taking a chunk whose
\* more-flag is 0, the modem has sent every chunk of the datagram, the payload is the
\* decoding of the chunks' hex texts concatenated in the order sent (chunks "41", "42"
\* give "AB"), and one receive command was written per chunk.
C8_MurataReassembly ==
    (/\ app.device_type = "murata_type1sc_ntng"
     /\ rx.status = "done"
     /\ rx.value # <<>>
     /\ rx.more = 0)
    => /\ downlink.chunks = <<>>
       /\ rx.value[1].payload = HexDecode(Join("", downlink.sent))
       /\ downlink.sent = <<"41", "42">> => rx.value[1].payload = "AB"
       /\ ReceivesWritten = Len(downlink.sent)

\* C8's case: the two chunks "41" (more data) and "42" (last) were received and "AB"
\* is about to be displayed.
C8_Witness ==
    /\ app.device_type = "murata_type1sc_ntng"
    /\ rx.status = "done"
    /\ downlink.sent = <<"41", "42">>
    /\ rx.value # <<>>
    /\ rx.value[1].payload = "AB"

\* C9: when the Nordic receive_udp returns after the modem answered the receive
\* command with header, payload line and OK, and all of these lines were consumed, it
\* returns nothing if the header's IP is not 100.127.10.16, and otherwise the message
\* with the header's port and the payload line.
C9_NordicDelivery ==
    (/\ app.device_type = "nordic_thingy91x"
     /\ rx.status = "done"
     /\ downlink.sent # <<>>
     /\ modem_out = <<>>
     /\ response_queue = <<>>)
    => rx.value = IF downlink.ip = "100.127.10.16"
                  THEN <<[ip |-> downlink.ip, port |-> downlink.port,
                          payload |-> downlink.sent[1]]>>
                  ELSE <<>>

(***************************************************************************)
(* C10: uplink hex encoding.                                               *)
(***************************************************************************)
\* The Murata send command is on the wire
HarvestCommandWritten ==
    /\ app.device_type = "murata_type1sc_ntng"
    /\ gui = "sending"
    /\ pc[GuiThread] \in {"collect", "settle", "returned"}
    /\ port_open

LastWritten == Strip(port_written[Len(port_written)])

\* C10: the written command AT%SOCKETDATA="SEND",1,<length>,"<hex>" carries a hex text
\* that decodes to the message, of two hex characters per message character, and a
\* length equal to the number of message characters; "hi" gives "6869" with length 2.
C10_UplinkHexEncoding ==
    HarvestCommandWritten =>
        LET message == Strip(command_input)
            quoted == Split(LastWritten, "\"")
            numbers == Split(quoted[3], ",")
        IN  /\ Len(quoted) = 5
            /\ quoted[1] = "AT%SOCKETDATA=" /\ quoted[2] = "SEND" /\ quoted[5] = ""
            /\ Len(numbers) = 4 /\ numbers[2] = "1"
            /\ IsDigits(numbers[3])
            /\ ToInt(numbers[3]) = Len(message)
            /\ Len(quoted[4]) = 2 * Len(message)
            /\ HexDecodes(quoted[4])
            /\ HexDecode(quoted[4]) = message
            /\ message = "hi" => LastWritten = "AT%SOCKETDATA=\"SEND\",1,2,\"6869\""

\* C10's case: the message "hi" has been written as hex "6869" with length 2.
C10_Witness ==
    /\ HarvestCommandWritten
    /\ Strip(command_input) = "hi"
    /\ LastWritten = "AT%SOCKETDATA=\"SEND\",1,2,\"6869\""

(***************************************************************************)
(* C11, C12: exceptions in the reader thread.                              *)
(***************************************************************************)
\* The reader thread leaves its loop on a serial port that failed, with no disconnect
TransportFaultStep == reader = "running" /\ port_open /\ ~port_open' /\ ~stop_event'

\* C11: when the serial port fails while connected, the connection becomes disconnected
\* (SerialManager.is_connected and the application's connection state) and the status
\* label shows it
C11_FaultDisconnects ==
    [][TransportFaultStep =>
          /\ ~serial_is_connected'
          /\ StartsWith(app'.status_label, "Status: Disconnected")]_vars

\* C12: the reader thread stops running only through a disconnect or the failure of the
\* serial port itself; any other error in a read leaves it running
C12_ReaderSurvivesErrors ==
    [][(reader = "running" /\ ~stop_event' /\ port_open') => reader' = "running"]_vars

(***************************************************************************)
(* C13: the profile factory.                                               *)
(***************************************************************************)
\* The identifier selected last names this device
Names(device) == app.device_type \in VariantsOf(device)

\* C13: an identifier that is a supported id or alias, in any letter case and with blanks
\* around it, gives the profile of its family and no error; every other identifier gives
\* no profile from the factory but an error naming every supported family
C13_FactoryMapping ==
    /\ \A device \in SupportedDevices :
          Names(device) => app.device_profile = device.profile /\ app.log_error = ""
    /\ (\A device \in SupportedDevices : ~Names(device)) =>
          /\ Create(app.device_type).profile = None
          /\ \A device \in SupportedDevices : Contains(app.log_error, device.id)

C13_Witness ==
    /\ app.device_type = " Murata_type1sc \n"
    /\ app.device_profile = "MurataType1SCProfile"

(***************************************************************************)
(* C14: the Murata socket allocation notice.                               *)
(***************************************************************************)
\* Bring-up thread b is in the wait that follows an ALLOCATE and precedes its ACTIVATE
InAllocationWait(b) ==
    /\ bringup[b].status = "running"
    /\ CurrentStep(b).op = "wait"
    /\ CurrentStep(b).text \in {"allocation", "listen_allocation"}

\* C14: a Murata bring-up goes on from an ALLOCATE to the ACTIVATE only with the
\* allocation notice received, and the socket it activates is the one the notice names
C14_ActivateAfterNotice ==
    [][\A b \in BringupThreads :
          (InAllocationWait(b) /\ bringup'[b].status = "running"
                /\ bringup'[b].ip = bringup[b].ip + 1) =>
             /\ app.last_socketcmd_notification \notin {None, ""}
             /\ StartsWith(app.last_socketcmd_notification, "%SOCKETCMD:")
             /\ CurrentStep(b).text = "listen_allocation" =>
                   "%SOCKETCMD:" \o bringup'[b].sock = app.last_socketcmd_notification]_vars

(***************************************************************************)
(* C15: a failed command inside a profile operation.                       *)
(***************************************************************************)
ProfilePhases == {"init", "pdp", "socket", "bind"}

\* A command of a profile operation has returned failure to bring-up thread b
ProfileCommandFailed(b) ==
    /\ bringup[b].status = "running"
    /\ CurrentStep(b).phase \in ProfilePhases
    /\ pc[b] = "returned"
    /\ ~result[b].ok

\* C15: when a command sent by a profile operation fails, the operation returns failure
\* and sends nothing more: the bring-up that called it ends as failed
C15_CommandFailureAborts ==
    [][\A b \in BringupThreads :
          (ProfileCommandFailed(b) /\ bringup'[b] # bringup[b]) =>
             bringup'[b].status = "failed"]_vars

(***************************************************************************)
(* C16: no retry of a bring-up phase.                                      *)
(***************************************************************************)
\* Thread c writes a line to the port in this step
Writes(c) == Len(port_written') = Len(port_written) + 1 /\ command_lock' = c

WritesCommandStep(c) == pc[c] \in {"lock", "bootlock"} /\ pc'[c] \in {"collect", "bootevt"}

\* C17: a call collects only lines that arrived after it wrote its command, so no line
\* is waiting in the response queue when a command is written (send_command takes the
\* waiting lines before any other); and a collected line is the oldest one waiting and is
\* taken off the queue, so no other call gets it
C17_ResponsesBelongToCall ==
    [][\A c \in Callers :
          /\ WritesCommandStep(c) => response_queue = <<>>
          /\ Len(responses'[c]) > Len(responses[c]) =>
                /\ Len(response_queue) > 0
                /\ responses'[c] = Append(responses[c], Head(response_queue))
                /\ response_queue' = Tail(response_queue)]_vars

(***************************************************************************)
(* C18: the consumers of the event queue.                                  *)
(***************************************************************************)
\* C18: an event leaves the event queue only by being dispatched by poll_serial: the
\* oldest event is taken, handle_urc is applied to it, and no thread waiting in a boot
\* wait, a GNSS wait or a bring-up step has moved on by taking it
C18_EventsConsumedByRouter ==
    [][Len(event_queue') < Len(event_queue) =>
          /\ event_queue' = Tail(event_queue)
          /\ HandleUrc(Head(event_queue))
          /\ pc' = pc
          /\ bringup' = bringup]_vars

(***************************************************************************)
(* C19: the boot event and the two readers of the event queue.             *)
(***************************************************************************)
BootWaitPending(c) == pc[c] \in {"bootevt", "bootresp"}

\* C19: while a boot wait is pending, a boot event at the head of the event queue is
\* taken by that wait, which returns success, whichever thread runs next
C19_BootEventSatisfiesWait ==
    [][\A c \in Callers :
          (/\ BootWaitPending(c)
           /\ Len(event_queue) > 0
           /\ IsBootEvent(Head(event_queue))
           /\ event_queue' = Tail(event_queue)) =>
             (pc'[c] = "returned" /\ result'[c].ok)]_vars

(***************************************************************************)
(* C20: the reader's classification of a line.                             *)
(***************************************************************************)
Blank(ch) == ch \in {" ", "\t", "\r", "\n"}

\* The first character of the line that is not blank is a notification sigil
StartsWithSigil(line) ==
    \E i \in 1..Len(line) :
       /\ Char(line, i) \in {"+", "%"}
       /\ \A j \in 1..(i - 1) : Blank(Char(line, j))

IsBlankLine(line) == \A i \in 1..Len(line) : Blank(Char(line, i))

\* The reader thread takes the next line the modem sent
ReadsLine == Len(modem_out) > 0 /\ modem_out' = Tail(modem_out)

WithoutCr(line) ==
    IF Len(line) > 0 /\ Char(line, Len(line)) = "\r" THEN SubSeq(line, 1, Len(line) - 1) ELSE line

\* The complete lines of a text: what stands before each LF, without the CR of a CR-LF
InputLines(text) ==
    [i \in 1..(Len(Split(text, "\n")) - 1) |-> WithoutCr(Split(text, "\n")[i])]

\* The reader thread reads in this step
ReaderReadsStep == Len(modem_out) > 0 /\ modem_out' = <<>>

\* The text the reader splits in this step
SplitText == buffer \o Join("", modem_out)

\* C21: what a read adds to the event queue are the notification lines of the input, all
\* of them, once and in their order, and what it adds to the response queue are the
\* other non-blank lines of the input, all of them, once and in their order
C21_StreamsLossless ==
    [][ReaderReadsStep =>
          /\ event_queue' =
                event_queue \o Stripped(SelectSeq(InputLines(SplitText), IsEventLine))
          /\ response_queue' =
                response_queue \o Stripped(SelectSeq(InputLines(SplitText), IsResponseLine))]_vars

HasTerminator(line) == Contains(line, "\n") \/ Contains(line, "\r")

Elements(queue) == {queue[i] : i \in 1..Len(queue)}

\* C22: whatever mix of CR-LF and LF ends the lines of the input, a line on either
\* queue holds no line terminator and is one of the lines of the input
C22_SplitsOnTerminators ==
    [][ReaderReadsStep =>
          \A line \in Elements(event_queue') \cup Elements(response_queue') :
             /\ ~HasTerminator(line)
             /\ \/ line \in Elements(event_queue) \cup Elements(response_queue)
                \/ line \in Elements(Stripped(InputLines(SplitText)))]_vars

(***************************************************************************)
(* C23: the settle delay.                                                  *)
(***************************************************************************)
\* C23: a send_command that has collected its result code goes into the settle delay
\* with the command lock held, and while it is there the lock stays with it and no other
\* thread writes a command
C23_SettleBeforeRelease ==
    [][\A c \in Callers :
          /\ (pc[c] = "collect" /\ Len(responses'[c]) > Len(responses[c])
                /\ IsResultCode(Head(response_queue))) =>
                (pc'[c] = "settle" /\ command_lock' = c)
          /\ pc[c] = "settle" =>
                /\ command_lock = c
                /\ \A d \in Callers \ {c} : ~Writes(d)]_vars

\* One call is in its settle delay while another waits for the lock
C23_Witness ==
    \E c, d \in Callers : pc[c] = "settle" /\ IsResultCode(responses[c][1]) /\ pc[d] = "lock"


(***************************************************************************)
(* C24: the router and the command lock.                                   *)
(***************************************************************************)
\* A step in which poll_serial takes an event and handle_urc runs on it
RouterStep == Len(event_queue) > 0 /\ event_queue' = Tail(event_queue)

\* C24: a dispatch neither takes or releases the command lock nor writes a command nor
\* moves any send_command, whoever holds the lock at the time; a connection-state
\* "connected" notice or a data-ready notice for the listen socket only starts the receive
\* thread, which has not begun its command when the dispatch is over
C24_RouterNeverTakesLock ==
    [][RouterStep =>
          /\ UNCHANGED <<command_lock, port_written, pc, cur_cmd, responses, result>>
          /\ SpawnsReceive(Head(event_queue), app.listen_socket_id) =>
                (rx'.status = "start" /\ pc'[ReceiveThread] = "idle")]_vars

\* The router has dispatched a data notification while the receive thread held the
\* command lock, after it had started that thread for the data-ready notice
C24_Witness ==
    /\ command_lock = ReceiveThread
    /\ app.last_socketdata_notification \notin {None, ""}
    /\ rx.status \in {"command", "more"}

(***************************************************************************)
(* C25: chunked downlink of the Murata profile.                            *)
(***************************************************************************)
\* C25: when the Murata receive_udp returns while the last chunk it took announced more
\* data, it returns None: nothing is decoded and shown from an unfinished chunk sequence
C25_NoPartialDelivery ==
    (IsMurata(app.device_type) /\ rx.status = "done" /\ rx.more = 1) => rx.value = <<>>

(***************************************************************************)
(* C26, C27: the %SOCKETEV and %CESQ branches of handle_urc.               *)
(***************************************************************************)
\* The dispatch starts a receive thread
SchedulesReceive == rx' # rx /\ rx'.status = "start"

C27_RsrpConversion ==
    [][/\ \A r \in RawRsrps :
             (RouterStep /\ Head(event_queue) = CesqLine(r)) =>
                app'.signal_rsrp = IF r # 255 THEN r - 141 ELSE app.signal_rsrp
       /\ (RouterStep /\ Head(event_queue) \in UnparsableCesqLines) =>
             app'.signal_rsrp = app.signal_rsrp]_vars

\* A value has been stored, and the sentinel or an unparsable line is the next to be
\* dispatched
C27_Witness ==
    /\ app.signal_rsrp \in {r - 141 : r \in RawRsrps \ {255}}
    /\ Len(event_queue) > 0
    /\ Head(event_queue) \in {CesqLine(255)} \cup UnparsableCesqLines

(***************************************************************************)
(* C28: the GNSS wait of the Murata initialize_network.                    *)
(***************************************************************************)
\* How often line occurs among the lines written to the port
TimesWritten(line) == Cardinality({i \in 1..Len(port_written) : port_written[i] = line})

GnssWaiting(b) == bringup[b].status = "running" /\ CurrentStep(b).op = "gnss"

GnssFailed(b) == bringup[b].status = "failed" /\ CurrentStep(b).op = "gnss"

\* The step takes a GNSS fix notification off the event queue
TakesGnssFix ==
    Len(event_queue) > 0 /\ IsGnssFix(Head(event_queue)) /\ event_queue' = Tail(event_queue)

\* C28: the GNSS wait is left forward only with a fix; when its time is up it fails the
\* bring-up, which then stays failed at that step; and after that failure neither
\* AT+CEREG=2 nor AT+CFUN=1 has been written and each of the four GNSS commands has been
\* written once
C28_GnssFailureIsFatal ==
    [][\A b \in BringupThreads :
          /\ (GnssWaiting(b) /\ bringup'[b].ip # bringup[b].ip) => TakesGnssFix
          /\ (GnssWaiting(b) /\ bringup[b].ticks >= WaitTimeoutTicks
                /\ bringup'[b] # bringup[b]) => GnssFailed(b)'
          /\ GnssFailed(b) => bringup'[b] = bringup[b]
          /\ GnssFailed(b)' =>
                /\ TimesWritten("AT+CEREG=2\r\n")' = 0
                /\ TimesWritten("AT+CFUN=1\r\n")' = 0
                /\ TimesWritten("AT%IGNSSEV=\"FIX\",1\r\n")' = 1
                /\ TimesWritten("AT%NOTIFYEV=\"SIB31\",1\r\n")' = 1
                /\ TimesWritten("AT%IGNSSACT=0\r\n")' = 1
                /\ TimesWritten("AT%IGNSSACT=1\r\n")' = 1]_vars

\* The GNSS wait has failed the bring-up and the user has disconnected since
C28_Witness ==
    \E b \in BringupThreads :
        GnssFailed(b) /\ bringup[b].ticks = 0 /\ app.connection_state = "disconnected"

(***************************************************************************)
(* C29: modem resets in the Murata initialize_network.                     *)
(***************************************************************************)
BootFailed(b) == bringup[b].status = "failed" /\ CurrentStep(b).op = "boot"

\* The lines written to the port so far hold a command of a step after step ip of the
\* bring-up program (the reset command itself occurs three times in a session)
LaterCommandWritten(device, ip) ==
    \E i \in (ip + 1)..Len(Program(device)), j \in 1..Len(port_written) :
        /\ WritesCommand(Program(device)[i])
        /\ Program(device)[i].op # "boot"
        /\ StartsWith(port_written[j], Program(device)[i].text)

\* C29: from the reset write to the end of the boot wait the waiting thread holds the
\* command lock and no other thread writes a command; the wait ends well only by taking
\* a %BOOTEV:0 event off the event queue; when it ends otherwise the bring-up fails at
\* the reset step and stays there, and no command of a later step has been written
C29_ResetBlocksCommands ==
    [][/\ \A c \in Callers :
            /\ InBootWait(c) =>
                  /\ command_lock = c
                  /\ \A d \in Callers \ {c} : ~Writes(d)
            /\ (InBootWait(c) /\ pc'[c] = "returned") =>
                  (result'[c].ok <=>
                      /\ Len(event_queue) > 0
                      /\ IsBootEvent(Head(event_queue))
                      /\ event_queue' = Tail(event_queue))
       /\ \A b \in BringupThreads :
            /\ (/\ bringup[b].status = "running"
                /\ CurrentStep(b).op = "boot"
                /\ pc[b] = "returned" /\ ~result[b].ok
                /\ bringup'[b] # bringup[b]) => BootFailed(b)'
            /\ BootFailed(b) => (bringup'[b] = bringup[b] /\ ~Writes(b))
            /\ BootFailed(b)' => ~LaterCommandWritten(app.device_type, bringup[b].ip)']_vars

\* The GUI thread's send_command waits for the lock while the bring-up thread, which has
\* reset the modem, is in its boot wait
C29_Witness ==
    \E b \in BringupThreads :
        InBootWait(b) /\ elapsed[b] > 0 /\ pc[GuiThread] = "lock" /\ gui = "sending"

(***************************************************************************)
(* C30: monitor_signal_quality in initialize_cellular_network.             *)
(***************************************************************************)
AtSignalStep(b) == bringup[b].status = "running" /\ CurrentStep(b).phase = "signal"

AtRegistrationWait(b) == bringup[b].status = "running" /\ CurrentStep(b).phase = "registration"

SignalCommand == "AT%CESQ=1\r\n"

NotificationShapes == {"stat", "level5"}

\* C31: parse_network_registration_urc of each device profile, applied to a registration
\* notification line carrying stat s (one field, or with quoted location fields), returns
\* a status with that stat whose registered flag is true exactly when s is 1 or 5, the
\* flag is the one handle_urc derives from the same line, and for a line that is not a
\* registration notice it returns None.
C31_ParserAgreesWithRouter ==
    profile_result.op = "parse" =>
        /\ \A stat \in CeregStats, shape \in NotificationShapes :
              profile_result.line = CeregLine(stat, shape) =>
                  /\ profile_result.value # <<>>
                  /\ profile_result.value[1].stat = stat
                  /\ profile_result.value[1].registered = (stat \in {1, 5})
                  /\ event_queue = <<>> =>
                        profile_result.value[1].registered = app.network_registered
        /\ ~StartsWith(profile_result.line, "+CEREG") => profile_result.value = <<>>

(***************************************************************************)
(* C32: the result of a send_command whose deadline passed.                *)
(***************************************************************************)
\* A terminal result line is among the lines a call has collected
HasTerminalLine(lines) == \E i \in 1..Len(lines) : IsResultCode(lines[i])

\* send_command returns to caller c
SendCommandReturns(c) == pc[c] \in {"collect", "settle"} /\ pc'[c] = "returned"

\* C32: send_command reports success only when a terminal result line was received
\* before the deadline: a call that collected one or more non-terminal lines and no
\* terminal line until the timeout elapsed returns failure, not success with the
\* partial text.
C32_PartialTextIsFailure ==
    [][\A c \in Callers :
          (SendCommandReturns(c) /\ ~HasTerminalLine(responses[c])) => ~result'[c].ok]_vars

(***************************************************************************)
(* C35: the downlink-bound flag of a disconnected application.             *)
(***************************************************************************)
\* C35: in every reachable state in which the application's connection state is
\* Disconnected, the downlink-bound flag is false, whatever the interleaving of
\* disconnect with a bring-up thread that is finishing its port-bind phase.
C35_DisconnectedIsUnbound ==
    app.connection_state = "disconnected" => ~app.udp_bound

(***************************************************************************)
(* C39: the listen socket id of the Murata bind.                           *)
(***************************************************************************)
\* Bring-up thread b is in bind_udp_port's poll for the allocation notice
InListenWait(b) ==
    /\ bringup[b].status = "running"
    /\ CurrentStep(b).op = "wait"
    /\ CurrentStep(b).text = "listen_allocation"

\* The id in the notice the modem sends for a LISTEN allocation
ListenNoticeId(device) ==
    SocketCmdId(NormalReply(Program(device)[Len(Program(device)) - 2].text, NoDatagram)[1])

\* C39: the listen socket id bind_udp_port records from a notice is the id carried by
\* the notice that answers its own LISTEN allocate command, never the id of the notice
\* produced by the earlier OPEN allocation, whenever the notices arrive and are
\* dispatched.
C39_ListenIdFromOwnNotice ==
    [][\A b \in BringupThreads :
          (InListenWait(b) /\ bringup[b].ticks < WaitTimeoutTicks /\ bringup'[b].ip # bringup[b].ip)
          => app'.listen_socket_id = ListenNoticeId(app.device_type)]_vars

(***************************************************************************)
(* C33: get_signal_quality through the reader and the command channel.     *)
(***************************************************************************)
\* send_command returned success with the terminal line OK as its last line
AnsweredWithOk(response) == response.ok /\ LastCollected(response.text) = "OK"

\* C33: get_signal_quality returns a signal quality with the reported rsrp whenever the
\* modem answered the query command with a well-formed measurement line followed by OK
\* and the answer came through _receive_loop's line classification and send_command
\* (Thingy:91 X: a line beginning %CESQ:).
C33_SignalQualityReturned ==
    (/\ profile_result.op = "signal"
     /\ profile_result.status = "done"
     /\ AnsweredWithOk(profile_result.response))
    => \A rsrp \in MeasuredRsrps :
          profile_result.line = MeasurementLine(app.device_type, rsrp) =>
              /\ profile_result.value # <<>>
              /\ profile_result.value[1].rsrp = rsrp

(***************************************************************************)
(* C34: one bring-up sequence at a time.                                   *)
(***************************************************************************)
\* Bring-up thread b goes on to a later step of its sequence
Advances(b) == bringup'[b].ip > bringup[b].ip

\* C34: at most one bring-up sequence is active at a time: after a disconnect followed
\* by a new connect, the bring-up thread started by the earlier connect writes no
\* further command and does not advance on status (registration flag, notification
\* slots) set during the new connection.
C34_OneBringupActive ==
    [][\A b \in BringupThreads :
          (IsStale(b) /\ app.is_connected) => (~Writes(b) /\ ~Advances(b))]_vars

(***************************************************************************)
(* C37: lines left in the queues by a previous connection.                 *)
(***************************************************************************)
\* The modem has acted on the command that makes it register and send its
\* registration notice on the connection that is open now
NoticeSentThisConnection ==
    \E i \in 1..modem_seen : Strip(port_written[i]) = "AT+CFUN=1"

\* C37: after a fresh connect the registration status becomes usable only through a
\* registration notification received on the new connection: a line left in the queues
\* by the previous connection is not dispatched in the new session.
C37_FreshSessionStreams ==
    (connects > MaxConnects /\ app.is_connected /\ app.network_registered)
        => NoticeSentThisConnection

(***************************************************************************)
(* C40: the poll cycles of the Communicator Application.                   *)
(***************************************************************************)
\* No (timestamp, text) is among the shown messages twice
ShownOnce ==
    \A i, j \in 1..Len(communicator.chat) :
        communicator.chat[i] = communicator.chat[j] => i = j

\* The fetches the worker threads have not handed back yet
FetchesInFlight == Len(harvest.fetches)

\* The step is connect's finish(), which sets the cursor to the time of the connect
ConnectStep == ~communicator.connected /\ communicator'.connected

C36_OneReaderPerPort == previous_reader.reads = 0

(***************************************************************************)
(* C38: two receive threads and the one notification slot.                 *)
(***************************************************************************)
\* A receive_udp invocation returns a message after taking a chunk whose more-flag is 0
DeliversLast(invocation) ==
    /\ invocation.status = "done"
    /\ invocation.value # <<>>
    /\ invocation.more = 0

\* handle_urc stores a %SOCKETDATA notice while the slot still holds one nobody took
SlotOverwritten ==
    /\ Len(event_queue) > 0
    /\ event_queue' = Tail(event_queue)
    /\ StartsWith(Head(event_queue), "%SOCKETDATA")
    /\ app.last_socketdata_notification \notin {None, ""}
    /\ app'.last_socketdata_notification = Head(event_queue)

\* C38: with two Murata receive_udp invocations running at once, an invocation that
\* returns a message after a last chunk (more-flag 0) returns the decoding of every chunk
\* of the datagram in the order sent, so no chunk went to the other invocation, and no
\* %SOCKETDATA notice is stored over one that was not taken yet.
C38_ChunksStayTogether ==
    [][/\ \A invocation \in {rx', rx_second'} :
            DeliversLast(invocation) =>
                /\ downlink'.chunks = <<>>
                /\ invocation.value[1].payload = HexDecode(Join("", downlink'.sent))
       /\ ~SlotOverwritten]_vars
====
